---------------------------- MODULE Spec2Model ----------------------------
(***************************************************************************)
(* Model of the status-transition analyses of fetch_hsdes-api_data.py:     *)
(* get_rejected_articles_summary, the eight analyze_*_from_api_data        *)
(* functions and the order in which create_wcl_bugs_transition_graph_sheet *)
(* runs them, up to the exception that ends the run (lines 1782-1784) and  *)
(* a second run of the program on the same list.                           *)
(*                                                                         *)
(* Python values are represented as follows.                               *)
(*   str       a sequence of one-character strings ("P1" is <<"P","1">>),  *)
(*             so that lower(), upper(), strip(), split(), `in`, slicing   *)
(*             and the regular expressions are computed, not assumed.      *)
(*   dict      a record; a key that is absent is a field that is absent,   *)
(*             and d.get(k, default) is Get(d, k, default).                *)
(*   list      a sequence.                                                 *)
(*   None      PyNone, also where a field of the service's JSON is null.   *)
(*   datetime  the number of seconds since 2000-01-01 00:00:00.            *)
(*   float     a rational [num, den]; every float the analyses compute is  *)
(*             a quotient of an integer by 24 or by 86400, or a multiple   *)
(*             of 0.5, and is compared with small integers only, so the    *)
(*             rational comparison is the float comparison.                *)
(***************************************************************************)
EXTENDS Integers, Sequences, FiniteSets, TLC

VARIABLES
    article_data_list,   \* the list handed to create_wcl_bugs_transition_graph_sheet
    pc,                  \* the next call create_wcl_bugs_transition_graph_sheet makes
    rejected_articles,   \* result of get_rejected_articles_summary
    first_analysis,      \* result of analyze_open_new_to_ack_triage_transitions_from_api_data
    second_analysis,     \* result of analyze_start_to_end_transitions_from_api_data
    second_counted,      \* the COUNTED lines analyze_start_to_end_... prints, one per counted article
    third_analysis,      \* result of analyze_awaiting_submitter_transitions_from_api_data
    fourth_analysis,     \* result of analyze_promoted_to_implemented_transitions_from_api_data
    fifth_analysis,      \* result of analyze_new_to_await_user_verify_transitions_from_api_data
    sixth_analysis,      \* result of analyze_any_to_await_user_verify_transitions_from_api_data
    seventh_analysis,    \* result of analyze_await_user_verify_transitions_from_api_data
    eighth_analysis,     \* result of analyze_any_to_complete_product_changed_transitions_from_api_data
    rerun                \* the call in progress is a repeated call on the same list

vars == <<article_data_list, pc, rejected_articles, first_analysis, second_analysis,
          second_counted, third_analysis, fourth_analysis, fifth_analysis,
          sixth_analysis, seventh_analysis, eighth_analysis, rerun>>

---------------------------------------------------------------------------
(* Python built-ins on str, dict and list                                  *)

UpperChars == <<"A","B","C","D","E","F","G","H","I","J","K","L","M",
                "N","O","P","Q","R","S","T","U","V","W","X","Y","Z">>
LowerChars == <<"a","b","c","d","e","f","g","h","i","j","k","l","m",
                "n","o","p","q","r","s","t","u","v","w","x","y","z">>
DigitChars == <<"0","1","2","3","4","5","6","7","8","9">>
SpaceChars == {" ", "\t"}

\* the lower-case and the upper-case form of each letter
LowerOf == [c \in {UpperChars[i] : i \in DOMAIN UpperChars} |->
               LowerChars[CHOOSE i \in DOMAIN UpperChars : UpperChars[i] = c]]
UpperOf == [c \in {LowerChars[i] : i \in DOMAIN LowerChars} |->
               UpperChars[CHOOSE i \in DOMAIN LowerChars : LowerChars[i] = c]]
LowerChar(c) == IF c \in DOMAIN LowerOf THEN LowerOf[c] ELSE c
UpperChar(c) == IF c \in DOMAIN UpperOf THEN UpperOf[c] ELSE c

\* s.lower(), s.upper()
Lower(s) == [i \in DOMAIN s |-> LowerChar(s[i])]
Upper(s) == [i \in DOMAIN s |-> UpperChar(s[i])]

\* c.isdigit() for one character, and int() of one digit
DigitOf == [c \in {DigitChars[i] : i \in DOMAIN DigitChars} |->
               (CHOOSE i \in DOMAIN DigitChars : DigitChars[i] = c) - 1]
IsDigit(c) == c \in DOMAIN DigitOf
DigitVal(c) == DigitOf[c]

\* int(s) for a non-empty string of digits
RECURSIVE IntOf(_)
IntOf(s) ==
    IF s = <<>> THEN 0
    ELSE 10 * IntOf(SubSeq(s, 1, Len(s) - 1)) + DigitVal(s[Len(s)])

\* s[i:j] with 0-based, end-exclusive Python indices 0 <= i <= j <= len(s)
Slice(s, i, j) == SubSeq(s, i + 1, j)

\* s[i:i+len(sub)] == sub, for a 0-based index i
MatchAt(s, i, sub) ==
    /\ i + Len(sub) <= Len(s)
    /\ Slice(s, i, i + Len(sub)) = sub

\* sub in s
Contains(sub, s) == \E i \in 0..Len(s) : MatchAt(s, i, sub)

\* s.startswith(p)
StartsWith(s, p) == MatchAt(s, 0, p)

\* s.split(sep)[0] for a one-character separator: the text before the first sep
SplitFirst(s, sep) ==
    IF Contains(sep, s)
    THEN Slice(s, 0, CHOOSE i \in 0..Len(s) :
                        /\ MatchAt(s, i, sep)
                        /\ \A j \in 0..(i - 1) : ~MatchAt(s, j, sep))
    ELSE s

\* s.strip(): from the first to the last character that is not a blank
NonBlank(s) == {i \in DOMAIN s : s[i] \notin SpaceChars}
StripTo(s, places) ==
    IF places = {} THEN <<>>
    ELSE SubSeq(s, CHOOSE a \in places : \A b \in places : a <= b,
                   CHOOSE a \in places : \A b \in places : a >= b)
Strip(s) == StripTo(s, NonBlank(s))

\* d.get(k, default)
Get(d, k, default) == IF k \in DOMAIN d THEN d[k] ELSE default

\* Python's None where a str is expected: no sequence of characters equals it
PyNone == <<"None">>

\* Python's None where a datetime is expected: no datetime is negative here
NoDate == -1

---------------------------------------------------------------------------
(* String constants of the source                                          *)

s_rejected == <<"r","e","j","e","c","t","e","d">>  \* "rejected"
s_dot == <<".">>  \* "."
s_dash == <<"-">>  \* "-"
s_P == <<"P">>  \* "P"
P1 == <<"P","1">>  \* "P1"
P2 == <<"P","2">>  \* "P2"
P3 == <<"P","3">>  \* "P3"
P4 == <<"P","4">>  \* "P4"
open_new == <<"o","p","e","n",".","n","e","w">>  \* "open.new"
open_acknowledged == <<"o","p","e","n",".","a","c","k","n","o","w","l","e","d","g","e","d">>  \* "open.acknowledged"
open_triage == <<"o","p","e","n",".","t","r","i","a","g","e">>  \* "open.triage"
open_awaiting_submitter == <<"o","p","e","n",".","a","w","a","i","t","i","n","g","_","s","u","b","m","i","t","t","e","r">>  \* "open.awaiting_submitter"
open_debug == <<"o","p","e","n",".","d","e","b","u","g">>  \* "open.debug"
open_promoted == <<"o","p","e","n",".","p","r","o","m","o","t","e","d">>  \* "open.promoted"
open_root_caused == <<"o","p","e","n",".","r","o","o","t","_","c","a","u","s","e","d">>  \* "open.root_caused"
open_awaiting_3rd_party == <<"o","p","e","n",".","a","w","a","i","t","i","n","g","_","3","r","d","_","p","a","r","t","y">>  \* "open.awaiting_3rd_party"
implemented == <<"i","m","p","l","e","m","e","n","t","e","d">>  \* "implemented"
implemented_await_user_verify == <<"i","m","p","l","e","m","e","n","t","e","d",".","a","w","a","i","t","_","u","s","e","r","_","v","e","r","i","f","y">>  \* "implemented.await_user_verify"
verified == <<"v","e","r","i","f","i","e","d">>  \* "verified"
complete_product_changed == <<"c","o","m","p","l","e","t","e",".","p","r","o","d","u","c","t","_","c","h","a","n","g","e","d">>  \* "complete.product_changed"
s_lt_1_hour == <<"<"," ","1"," ","h","o","u","r">>  \* "< 1 hour"
s_day == <<"d","a","y">>  \* "day"
s_hour == <<"h","o","u","r">>  \* "hour"

\* the keys of every time_buckets table
Tiers == {P1, P2, P3, P4}

---------------------------------------------------------------------------
(* parse_date: datetime.strptime(date_part, '%Y-%m-%d %H:%M:%S')           *)

IsLeap(y) == (y % 4 = 0 /\ y % 100 # 0) \/ y % 400 = 0

DaysInMonth(y, m) ==
    IF m = 2 THEN (IF IsLeap(y) THEN 29 ELSE 28)
    ELSE IF m \in {4, 6, 9, 11} THEN 30 ELSE 31

\* days from 2000-01-01 to the civil date y-m-d (proleptic Gregorian calendar)
DaysFromCivil(y, m, d) ==
    LET yy  == IF m <= 2 THEN y - 1 ELSE y
        era == yy \div 400
        yoe == yy - era * 400
        mp  == (m + 9) % 12
        doy == (153 * mp + 2) \div 5 + d - 1
        doe == yoe * 365 + yoe \div 4 - yoe \div 100 + doy
    IN  era * 146097 + doe - 730425

\* the datetime of the fields, or NoDate where datetime() raises ValueError
MakeDate(y, m, d, hh, mm, ss) ==
    IF /\ y >= 2000
       /\ m \in 1..12
       /\ d \in 1..DaysInMonth(y, m)
       /\ hh \in 0..23
       /\ mm \in 0..59
       /\ ss \in 0..59
    THEN DaysFromCivil(y, m, d) * 86400 + hh * 3600 + mm * 60 + ss
    ELSE NoDate

\* strptime on the zero-padded form YYYY-MM-DD HH:MM:SS, the only form in
\* which the service writes a timestamp; any other text raises ValueError.
strptime(date_part) ==
    IF /\ Len(date_part) = 19
       /\ \A i \in {1, 2, 3, 4, 6, 7, 9, 10, 12, 13, 15, 16, 18, 19} : IsDigit(date_part[i])
       /\ date_part[5] = "-" /\ date_part[8] = "-"
       /\ date_part[11] = " "
       /\ date_part[14] = ":" /\ date_part[17] = ":"
    THEN MakeDate(IntOf(SubSeq(date_part, 1, 4)), IntOf(SubSeq(date_part, 6, 7)),
                  IntOf(SubSeq(date_part, 9, 10)), IntOf(SubSeq(date_part, 12, 13)),
                  IntOf(SubSeq(date_part, 15, 16)), IntOf(SubSeq(date_part, 18, 19)))
    ELSE NoDate

parse_date(date_str) ==
    IF date_str = <<>> THEN NoDate
    ELSE LET date_part == IF Contains(s_dot, date_str)
                          THEN SplitFirst(date_str, s_dot)   \* remove microseconds
                          ELSE date_str
         IN  strptime(date_part)

---------------------------------------------------------------------------
(* parse_time_spent_to_hours.  The module defines it twice; the second     *)
(* definition (line 305) replaces the first (line 51) when the module is   *)
(* loaded, so every caller gets the second.  Hours are returned in units   *)
(* of half an hour, so that 0.5 is the integer 1.                          *)

\* re.search(r'(\d+)\s+' + unit, time_str) (min_spaces = 1) and
\* re.search(r'(\d+)\s*' + unit, time_str) (min_spaces = 0).  \d+ is greedy
\* and the unit starts with a letter, so a match that starts at the 0-based
\* index i takes the whole run of digits from i, then the whole run of
\* blanks, then the unit; the trailing s? of the pattern matches either way.
DigitsEnd(s, i) ==
    CHOOSE j \in (i + 1)..Len(s) :
        /\ \A k \in (i + 1)..j : IsDigit(s[k])
        /\ (j = Len(s) \/ ~IsDigit(s[j + 1]))

SpacesEnd(s, j) ==
    CHOOSE k \in j..Len(s) :
        /\ \A n \in (j + 1)..k : s[n] \in SpaceChars
        /\ (k = Len(s) \/ s[k + 1] \notin SpaceChars)

UnitAfterSpaces(s, j, k, unit, min_spaces) == k - j >= min_spaces /\ MatchAt(s, k, unit)
UnitAfterDigits(s, j, unit, min_spaces) ==
    UnitAfterSpaces(s, j, SpacesEnd(s, j), unit, min_spaces)
UnitMatchAt(s, i, unit, min_spaces) ==
    /\ i < Len(s)
    /\ IsDigit(s[i + 1])
    /\ UnitAfterDigits(s, DigitsEnd(s, i), unit, min_spaces)

\* the least element of a non-empty set of numbers
Least(S) == CHOOSE x \in S : \A y \in S : x <= y

\* int(match.group(1)) of the leftmost match among the starts, 0 if there is
\* none ('if days_match: total_hours += ...')
LeftmostGroup1(s, starts) ==
    IF starts = {} THEN 0
    ELSE IntOf(Slice(s, Least(starts), DigitsEnd(s, Least(starts))))

ReSearchGroup1(s, unit, min_spaces) ==
    LeftmostGroup1(s, {i \in 0..Len(s) : UnitMatchAt(s, i, unit, min_spaces)})

\* The first definition (line 51), which no caller reaches: '<' together
\* with 'hour' is one whole hour, and the unit may follow the digits directly.
parse_first_lowered(t) ==
    2 * (ReSearchGroup1(t, s_day, 0) * 24 + ReSearchGroup1(t, s_hour, 0))
parse_time_spent_to_hours_first(time_str) ==
    IF time_str = <<>> \/ Strip(time_str) = <<>> THEN 0
    ELSE IF Contains(<<"<">>, time_str) /\ Contains(s_hour, Lower(time_str)) THEN 2
    ELSE parse_first_lowered(Lower(Strip(time_str)))

\* The second definition (line 305), the one in effect: lines 316-340 on the
\* stripped, lower-cased text, then the whole function.
parse_lowered(t) ==
    IF Contains(s_lt_1_hour, t) THEN 1          \* 0.5 hour
    ELSE 2 * ( (IF Contains(s_day, t) THEN ReSearchGroup1(t, s_day, 1) * 24 ELSE 0)
             + (IF Contains(s_hour, t) THEN ReSearchGroup1(t, s_hour, 1) ELSE 0) )
parse_time_spent_to_hours(time_str) ==
    IF time_str = <<>> THEN 0
    ELSE parse_lowered(Lower(Strip(time_str)))

---------------------------------------------------------------------------
(* Floats as rationals                                                     *)

Rat(n, d) == [num |-> n, den |-> d]
RatLt(x, n) == x.num < n * x.den        \* x <  n
RatLe(x, n) == x.num <= n * x.den       \* x <= n
RatGe(x, n) == x.num >= n * x.den       \* x >= n

\* timedelta.days and timedelta.total_seconds() / (24 * 3600) of end - start
TimedeltaDays(start_date, end_date) == Rat((end_date - start_date) \div 86400, 1)
TimedeltaFractionalDays(start_date, end_date) == Rat(end_date - start_date, 86400)

---------------------------------------------------------------------------
(* Steps the analyses share word for word                                  *)

\* Increment as 'time_buckets[priority][bucket] = 1'
Increment_assign(time_buckets, priority, bucket) ==
    [time_buckets EXCEPT ![priority][bucket] = 1]

\* time_buckets[priority][bucket] += 1
Increment(time_buckets, priority, bucket) ==
    [time_buckets EXCEPT ![priority][bucket] = @ + 1]

\* 'not article_data or "transitions" not in article_data'
SkipsArticle(article_data) ==
    DOMAIN article_data = {} \/ "transitions" \notin DOMAIN article_data

\* any(... 'rejected' in trans.get('status', '').lower() ...), the loop with break
AnyTransitionRejected(transitions) ==
    \E i \in DOMAIN transitions :
        Contains(s_rejected, Lower(Get(transitions[i], "status", <<>>)))

\* The rejection test of analyses 1, 3, 4, 5, 6, 7 and 8 (lines 184-200,
\* 554-569, 694-709, 826-841, 957-972, 1083-1098, 1224-1239): the current
\* status or any transition holds 'rejected'.
is_rejected(article_data) ==
    \/ Contains(s_rejected, Lower(Get(article_data, "status", <<>>)))
    \/ AnyTransitionRejected(Get(article_data, "transitions", <<>>))

\* The rejection test of analysis 2 (lines 386-397): transitions only.
is_rejected_second(article_data) ==
    AnyTransitionRejected(Get(article_data, "transitions", <<>>))

\* The priority extraction of analyses 1, 3, 4, 5, 6, 7 and 8 (lines 202-216,
\* 571-582, 711-722, 843-854, 974-985, 1100-1111, 1241-1252).
priority_of(priority_raw) ==
    IF StartsWith(priority_raw, s_P)
    THEN IF Contains(s_dash, priority_raw)
         THEN SplitFirst(priority_raw, s_dash)
         ELSE IF Len(priority_raw) >= 2 /\ IsDigit(priority_raw[2])
              THEN Slice(priority_raw, 0, 2)
              ELSE priority_raw
    ELSE PyNone
extract_priority(article_data) ==
    priority_of(Upper(Get(article_data, "priority", <<>>)))

\* priority_of_second that keeps a label without '-' whole
priority_of_second_unsliced(priority_raw) ==
    IF StartsWith(priority_raw, s_P)
    THEN IF Contains(s_dash, priority_raw)
         THEN SplitFirst(priority_raw, s_dash)
         ELSE priority_raw
    ELSE PyNone

\* The priority extraction of analysis 2 (lines 399-407).
priority_of_second(priority_raw) ==
    IF StartsWith(priority_raw, s_P)
    THEN IF Contains(s_dash, priority_raw)
         THEN SplitFirst(priority_raw, s_dash)
         ELSE IF Len(priority_raw) >= 2 THEN Slice(priority_raw, 0, 2) ELSE priority_raw
    ELSE PyNone
extract_priority_second(article_data) ==
    priority_of_second(Upper(Get(article_data, "priority", <<>>)))

\* list.sort(key=lambda x: x[0]) on a list of (date, trans): a stable sort,
\* here by inserting each pair after the last one that is not greater.
InsertSorted(front, x, n) ==
    SubSeq(front, 1, n) \o <<x>> \o SubSeq(front, n + 1, Len(front))
\* InsertStable that puts a pair before the pairs of the same date
InsertStable_before_equal(front, x) ==
    InsertSorted(front, x, Cardinality({i \in DOMAIN front : front[i][1] < x[1]}))
InsertStable(front, x) ==
    InsertSorted(front, x, Cardinality({i \in DOMAIN front : front[i][1] <= x[1]}))
RECURSIVE StableSort(_)
StableSort(pairs) ==
    IF pairs = <<>> THEN <<>>
    ELSE InsertStable(StableSort(SubSeq(pairs, 1, Len(pairs) - 1)), pairs[Len(pairs)])

\* lines 230-234: the (date, trans) pairs of the transitions whose
\* updated_date parses, in the order of the list
AppendDated(front, date, trans) ==
    IF date # NoDate THEN Append(front, <<date, trans>>) ELSE front
RECURSIVE DatedTransitions(_)
DatedTransitions(transitions) ==
    IF transitions = <<>> THEN <<>>
    ELSE AppendDated(DatedTransitions(SubSeq(transitions, 1, Len(transitions) - 1)),
                     parse_date(Get(transitions[Len(transitions)], "updated_date", <<>>)),
                     transitions[Len(transitions)])

\* sorted_transitions, lines 229-236 (and 590-597, 730-737, 862-869,
\* 993-1000, 1119-1126, 1260-1267)
sorted_transitions_of(transitions) == StableSort(DatedTransitions(transitions))

\* 'for ... in seq: if <test>: ...; break': the 1-based place of the first
\* element that passes the test, given the set of the places that pass it;
\* 0 if none does
FirstIndex(places) == IF places = {} THEN 0 ELSE Least(places)

\* What the loop body of an analysis does with one article: nothing
\* (continue), or one increment of the cell of (priority, days).
NotCounted == [counted |-> FALSE]
Counted(priority, days, start_date, end_date) ==
    [counted |-> TRUE, priority |-> priority, days |-> days,
     start_date |-> start_date, end_date |-> end_date]

\* The loop body of analyses 1, 3, 4, 5, 6, 7 and 8 down to the sort (lines
\* 179-236 and the copies at 549-597, 689-737, 821-869, 952-1000, 1078-1126,
\* 1219-1267): whether the article goes on, its priority, and its sorted
\* transitions as their dates and their lower-cased statuses
NotPrepared == [ok |-> FALSE]
SortedView(priority, sorted_transitions) ==
    [ok |-> TRUE, priority |-> priority,
     dates |-> [i \in DOMAIN sorted_transitions |-> sorted_transitions[i][1]],
     statuses |-> [i \in DOMAIN sorted_transitions |->
                      Lower(Get(sorted_transitions[i][2], "status", <<>>))]]
prepare_classified(priority, article_data) ==
    IF priority \notin Tiers THEN NotPrepared
    ELSE IF article_data.transitions = <<>> THEN NotPrepared
    ELSE SortedView(priority, sorted_transitions_of(article_data.transitions))
prepare(article_data) ==
    IF SkipsArticle(article_data) THEN NotPrepared
    ELSE IF is_rejected(article_data) THEN NotPrepared
    ELSE prepare_classified(extract_priority(article_data), article_data)

---------------------------------------------------------------------------
(* The initial time_buckets tables                                         *)

\* lines 170-175, 540-545 and 1069-1074 (analyses 1, 3 and 5)
time_buckets_2_5_7 ==
    (P1 :> [b \in {"< 2 days", "2 to 5 days", "> 5 days"} |-> 0])
 @@ (P2 :> [b \in {"< 5 days", "6 to 7 days", "> 7 days"} |-> 0])
 @@ (P3 :> [b \in {"< 10 days", "10 to 15 days", "> 15 days"} |-> 0])
 @@ (P4 :> [b \in {"< 15 days", "> 15 days"} |-> 0])

\* lines 368-373, 680-685, 943-948 and 1210-1215 (analyses 2, 4, 8 and 6)
time_buckets_10_15 ==
    (P1 :> [b \in {"< 10 days", "10 to 15 days", "> 15 days"} |-> 0])
 @@ (P2 :> [b \in {"< 10 days", "10 to 15 days", "> 15 days"} |-> 0])
 @@ (P3 :> [b \in {"< 10 days", "10 to 15 days", "> 15 days"} |-> 0])
 @@ (P4 :> [b \in {"< 15 days", "> 15 days"} |-> 0])

\* time_buckets_7_10 with the P4 row a copy of the rows above it
time_buckets_7_10_copied ==
    [p \in Tiers |-> [b \in {"< 7 days", "7 to 10 days", "> 10 days", "< 10 days"} |-> 0]]

\* lines 808-813 (analysis 7)
time_buckets_7_10 ==
    (P1 :> [b \in {"< 7 days", "7 to 10 days", "> 10 days"} |-> 0])
 @@ (P2 :> [b \in {"< 7 days", "7 to 10 days", "> 10 days"} |-> 0])
 @@ (P3 :> [b \in {"< 7 days", "7 to 10 days", "> 10 days"} |-> 0])
 @@ (P4 :> [b \in {"< 10 days", "> 10 days"} |-> 0])

---------------------------------------------------------------------------
(* Analysis 1: analyze_open_new_to_ack_triage_transitions_from_api_data *)

first_end_statuses == {open_acknowledged, open_triage, open_awaiting_submitter}   \* line 254

\* lines 261-262: days, once the end is found at place ei
first_days(v, si, ei) ==
    IF ei = 0 THEN NotCounted
    ELSE Counted(v.priority, TimedeltaDays(v.dates[si], v.dates[ei]), v.dates[si], v.dates[ei])

\* first_end with 'date >= start_date' at line 252
first_end_not_before(v, si) ==
    IF si = 0 THEN NotCounted
    ELSE first_days(v, si, FirstIndex({i \in DOMAIN v.dates :
             /\ v.dates[i] >= v.dates[si]
             /\ v.statuses[i] \in first_end_statuses}))

\* lines 249-259: the first end after the start found at place si
first_end(v, si) ==
    IF si = 0 THEN NotCounted
    ELSE first_days(v, si, FirstIndex({i \in DOMAIN v.dates :
             /\ v.dates[i] > v.dates[si]
             /\ v.statuses[i] \in first_end_statuses}))

\* first_start with the last open.new taken as the start
first_start_latest(v) ==
    IF ~v.ok THEN NotCounted
    ELSE first_end(v, IF \A i \in DOMAIN v.dates : v.statuses[i] # open_new THEN 0
                      ELSE CHOOSE i \in DOMAIN v.dates :
                               /\ v.statuses[i] = open_new
                               /\ \A j \in DOMAIN v.dates :
                                      v.statuses[j] = open_new => j <= i)

\* lines 238-247: the first start
first_start(v) ==
    IF ~v.ok THEN NotCounted
    ELSE first_end(v, FirstIndex({i \in DOMAIN v.dates :
             v.statuses[i] = open_new}))

first_article(article_data) == first_start(prepare(article_data))

\* first_bucket with the first P1 boundary taken as 'days <= 2'
first_bucket_le(priority, days) ==
    IF priority = P1 THEN
        IF RatLe(days, 2) THEN "< 2 days"
        ELSE IF RatLe(days, 5) THEN "2 to 5 days"
        ELSE "> 5 days"
    ELSE IF priority = P2 THEN
        IF RatLt(days, 5) THEN "< 5 days"
        ELSE IF RatLe(days, 7) THEN "6 to 7 days"
        ELSE "> 7 days"
    ELSE IF priority = P3 THEN
        IF RatLt(days, 10) THEN "< 10 days"
        ELSE IF RatLe(days, 15) THEN "10 to 15 days"
        ELSE "> 15 days"
    ELSE
        IF RatLt(days, 15) THEN "< 15 days"
        ELSE "> 15 days"

\* lines 264-290: the bucket of (priority, days)
first_bucket(priority, days) ==
    IF priority = P1 THEN
        IF RatLt(days, 2) THEN "< 2 days"
        ELSE IF RatGe(days, 2) /\ RatLe(days, 5) THEN "2 to 5 days"
        ELSE "> 5 days"
    ELSE IF priority = P2 THEN
        IF RatLt(days, 5) THEN "< 5 days"
        ELSE IF RatGe(days, 5) /\ RatLe(days, 7) THEN "6 to 7 days"
        ELSE "> 7 days"
    ELSE IF priority = P3 THEN
        IF RatLt(days, 10) THEN "< 10 days"
        ELSE IF RatGe(days, 10) /\ RatLe(days, 15) THEN "10 to 15 days"
        ELSE "> 15 days"
    ELSE \* priority = P4
        IF RatLt(days, 15) THEN "< 15 days"
        ELSE "> 15 days"

\* the loop body for one article: the cell it increments, if any
first_count(time_buckets, r) ==
    IF r.counted
    THEN Increment(time_buckets, r.priority, first_bucket(r.priority, r.days))
    ELSE time_buckets

\* lines 170-302: the loop over the list
RECURSIVE analyze_open_new_to_ack_triage_transitions_from_api_data(_)
analyze_open_new_to_ack_triage_transitions_from_api_data(list) ==
    IF list = <<>> THEN time_buckets_2_5_7
    ELSE first_count(
             analyze_open_new_to_ack_triage_transitions_from_api_data(SubSeq(list, 1, Len(list) - 1)),
             first_article(list[Len(list)]))

---------------------------------------------------------------------------
(* Analysis 2: analyze_start_to_end_transitions_from_api_data              *)

second_start_statuses == {open_new, open_acknowledged, open_triage}          \* line 376
\* second_end_statuses with the status that has 'implemented' as a prefix
second_end_statuses_by_prefix ==
    {open_debug, open_promoted, open_root_caused, implemented, implemented_await_user_verify}
second_end_statuses == {open_debug, open_promoted, open_root_caused, implemented}  \* line 377
early_stop_statuses == {open_awaiting_submitter, implemented_await_user_verify}    \* line 441
excluded_statuses == {open_promoted, open_awaiting_3rd_party}                \* line 473

\* transitions[i].get('status', '').lower() for a 0-based index i
RawStatus(transitions, i) == Lower(Get(transitions[i + 1], "status", <<>>))

\* first_pass_step without the test 'if latest_end_index == -1' of line 427
first_pass_step_any_start(prev, i, status) ==
    IF status \in second_start_statuses
    THEN [prev EXCEPT !.last_start_status = status, !.last_start_index = i]
    ELSE IF status \in second_end_statuses
    THEN [prev EXCEPT !.latest_end_status = status, !.latest_end_index = i]
    ELSE prev

\* lines 416-433: the loop variables after the first n transitions
first_pass_step(prev, i, status) ==
    IF status \in second_start_statuses
    THEN IF prev.latest_end_index = -1
         THEN [prev EXCEPT !.last_start_status = status, !.last_start_index = i]
         ELSE prev
    ELSE IF status \in second_end_statuses
    THEN [prev EXCEPT !.latest_end_status = status, !.latest_end_index = i]
    ELSE prev

\* first_pass with last_start_index initialised to 0 instead of -1
RECURSIVE first_pass_start_at_zero(_, _)
first_pass_start_at_zero(transitions, n) ==
    IF n = 0
    THEN [last_start_status |-> PyNone, last_start_index |-> 0,
          latest_end_status |-> PyNone, latest_end_index |-> -1]
    ELSE first_pass_step(first_pass_start_at_zero(transitions, n - 1), n - 1,
                         RawStatus(transitions, n - 1))
RECURSIVE first_pass(_, _)
first_pass(transitions, n) ==
    IF n = 0
    THEN [last_start_status |-> PyNone, last_start_index |-> -1,
          latest_end_status |-> PyNone, latest_end_index |-> -1]
    ELSE first_pass_step(first_pass(transitions, n - 1), n - 1,
                         RawStatus(transitions, n - 1))

\* lines 444-451: 'for i in range(i, stop)' with break at the first
\* early-stop status; -1 if the loop ends without one
RECURSIVE find_early_stop(_, _, _)
find_early_stop(transitions, i, stop) ==
    IF i >= stop THEN -1
    ELSE IF RawStatus(transitions, i) \in early_stop_statuses THEN i
    ELSE find_early_stop(transitions, i + 1, stop)

\* find_new_end that keeps the first end status of the range, not the last
RECURSIVE find_new_end_first(_, _, _, _)
find_new_end_first(transitions, i, stop, new_end_index) ==
    IF i >= stop THEN new_end_index
    ELSE find_new_end_first(transitions, i + 1, stop,
                            IF /\ RawStatus(transitions, i) \in second_end_statuses
                               /\ new_end_index = -1
                            THEN i ELSE new_end_index)

\* lines 455-461: 'for i in range(i, stop)', new_end_index assigned at every
\* end status
RECURSIVE find_new_end(_, _, _, _)
find_new_end(transitions, i, stop, new_end_index) ==
    IF i >= stop THEN new_end_index
    ELSE find_new_end(transitions, i + 1, stop,
                      IF RawStatus(transitions, i) \in second_end_statuses
                      THEN i ELSE new_end_index)

\* sum_step that adds the duration of an excluded status as well
sum_step_all(acc, status, dur) ==
    IF dur # <<>>
    THEN [acc EXCEPT !.duration_parts = Append(@, <<status, dur>>),
                     !.total_hours = @ + parse_time_spent_to_hours(dur)]
    ELSE acc

\* lines 481-489: one round of the summing loop
sum_step(acc, status, dur) ==
    IF dur # <<>>
    THEN IF status \in excluded_statuses
         THEN [acc EXCEPT !.excluded_parts = Append(@, <<status, dur>>)]
         ELSE [acc EXCEPT !.duration_parts = Append(@, <<status, dur>>),
                          !.total_hours = @ + parse_time_spent_to_hours(dur)]
    ELSE acc

\* lines 477-489: 'for i in range(i, stop)' over the summed range
RECURSIVE sum_durations(_, _, _, _)
sum_durations(transitions, i, stop, acc) ==
    IF i >= stop THEN acc
    ELSE sum_durations(transitions, i + 1, stop,
                       sum_step(acc, RawStatus(transitions, i),
                                Get(transitions[i + 1], "duration", <<>>)))

\* lines 492-499: the locals at the COUNTED line.  total_hours is in half
\* hours, so days = total_hours / 24 is the rational total_hours / 48.
second_line(article_data, priority, pass, early_stop_index, latest_end_index, sum) ==
    [counted |-> TRUE,
     id |-> Get(article_data, "id", "Unknown"),
     priority |-> priority,
     days |-> Rat(sum.total_hours, 48),
     total_hours |-> sum.total_hours,
     duration_parts |-> sum.duration_parts,
     excluded_parts |-> sum.excluded_parts,
     last_start_index |-> pass.last_start_index,
     latest_end_index |-> latest_end_index,
     latest_end_status |-> RawStatus(article_data.transitions, latest_end_index),
     early_stop_index |-> early_stop_index]

\* lines 472-489
second_sum(article_data, priority, pass, early_stop_index, latest_end_index) ==
    second_line(article_data, priority, pass, early_stop_index, latest_end_index,
                sum_durations(article_data.transitions, pass.last_start_index,
                              latest_end_index,
                              [total_hours |-> 0, duration_parts |-> <<>>,
                               excluded_parts |-> <<>>]))

\* lines 463-470
second_new_end(article_data, priority, pass, early_stop_index, new_end_index) ==
    IF new_end_index = -1 THEN NotCounted
    ELSE second_sum(article_data, priority, pass, early_stop_index, new_end_index)

\* lines 453-461
second_early_stop(article_data, priority, pass, early_stop_index) ==
    IF early_stop_index # -1
    THEN second_new_end(article_data, priority, pass, early_stop_index,
                        find_new_end(article_data.transitions, pass.last_start_index,
                                     early_stop_index, -1))
    ELSE second_sum(article_data, priority, pass, early_stop_index,
                    pass.latest_end_index)

\* second_pass that goes on from index 0 when the first pass has found an
\* end status and no start status
second_pass_without_start(article_data, priority, pass) ==
    IF pass.latest_end_index = -1 THEN NotCounted
    ELSE IF pass.last_start_index = -1
    THEN second_early_stop(article_data, priority, [pass EXCEPT !.last_start_index = 0],
                           find_early_stop(article_data.transitions, 0,
                                           pass.latest_end_index + 1))
    ELSE second_early_stop(article_data, priority, pass,
                           find_early_stop(article_data.transitions,
                                           pass.last_start_index,
                                           pass.latest_end_index + 1))

\* lines 435-451
second_pass(article_data, priority, pass) ==
    IF pass.last_start_index = -1 \/ pass.latest_end_index = -1 THEN NotCounted
    ELSE second_early_stop(article_data, priority, pass,
                           find_early_stop(article_data.transitions,
                                           pass.last_start_index,
                                           pass.latest_end_index + 1))

\* lines 409-433
second_classified(article_data, priority) ==
    IF priority = PyNone \/ priority = <<>> \/ priority \notin Tiers THEN NotCounted
    ELSE IF article_data.transitions = <<>> THEN NotCounted
    ELSE second_pass(article_data, priority,
                     first_pass(article_data.transitions, Len(article_data.transitions)))

\* lines 380-499: the loop body up to the COUNTED line
second_article(article_data) ==
    IF SkipsArticle(article_data) THEN NotCounted
    ELSE IF is_rejected_second(article_data) THEN NotCounted
    ELSE second_classified(article_data, extract_priority_second(article_data))

\* lines 501-513: the bucket of (priority, days)
second_bucket(priority, days) ==
    IF priority \in {P1, P2, P3} THEN
        IF RatLt(days, 10) THEN "< 10 days"
        ELSE IF RatLe(days, 15) THEN "10 to 15 days"
        ELSE "> 15 days"
    ELSE \* priority = P4
        IF RatLt(days, 15) THEN "< 15 days"
        ELSE "> 15 days"

\* the loop body for one article: the cell it increments and the line it prints
second_count(prev, r) ==
    IF r.counted
    THEN [time_buckets |-> Increment(prev.time_buckets, r.priority,
                                     second_bucket(r.priority, r.days)),
          counted_lines |-> Append(prev.counted_lines, r)]
    ELSE prev

\* lines 368-525: the table and the COUNTED lines after the whole list
RECURSIVE analyze_start_to_end_transitions_from_api_data(_)
analyze_start_to_end_transitions_from_api_data(list) ==
    IF list = <<>> THEN [time_buckets |-> time_buckets_10_15, counted_lines |-> <<>>]
    ELSE second_count(
             analyze_start_to_end_transitions_from_api_data(SubSeq(list, 1, Len(list) - 1)),
             second_article(list[Len(list)]))

---------------------------------------------------------------------------
(* Analysis 3: analyze_awaiting_submitter_transitions_from_api_data *)

\* lines 622-623: days, once the end is found at place ei
third_days(v, si, ei) ==
    IF ei = 0 THEN NotCounted
    ELSE Counted(v.priority, TimedeltaDays(v.dates[si], v.dates[ei]), v.dates[si], v.dates[ei])

\* lines 610-620: the first end after the start found at place si
third_end(v, si) ==
    IF si = 0 THEN NotCounted
    ELSE third_days(v, si, FirstIndex({i \in DOMAIN v.dates :
             /\ v.dates[i] > v.dates[si]
             /\ v.statuses[i] # open_awaiting_submitter}))

\* lines 599-608: the first start
third_start(v) ==
    IF ~v.ok THEN NotCounted
    ELSE third_end(v, FirstIndex({i \in DOMAIN v.dates :
             v.statuses[i] = open_awaiting_submitter}))

third_article(article_data) == third_start(prepare(article_data))

\* lines 628-653: the bucket of (priority, days)
third_bucket(priority, days) ==
    IF priority = P1 THEN
        IF RatLt(days, 2) THEN "< 2 days"
        ELSE IF RatGe(days, 2) /\ RatLe(days, 5) THEN "2 to 5 days"
        ELSE "> 5 days"
    ELSE IF priority = P2 THEN
        IF RatLt(days, 5) THEN "< 5 days"
        ELSE IF RatGe(days, 5) /\ RatLe(days, 7) THEN "6 to 7 days"
        ELSE "> 7 days"
    ELSE IF priority = P3 THEN
        IF RatLt(days, 10) THEN "< 10 days"
        ELSE IF RatGe(days, 10) /\ RatLe(days, 15) THEN "10 to 15 days"
        ELSE "> 15 days"
    ELSE \* priority = P4
        IF RatLt(days, 15) THEN "< 15 days"
        ELSE "> 15 days"

\* the loop body for one article: the cell it increments, if any
third_count(time_buckets, r) ==
    IF r.counted
    THEN Increment(time_buckets, r.priority, third_bucket(r.priority, r.days))
    ELSE time_buckets

\* lines 540-665: the loop over the list
RECURSIVE analyze_awaiting_submitter_transitions_from_api_data(_)
analyze_awaiting_submitter_transitions_from_api_data(list) ==
    IF list = <<>> THEN time_buckets_2_5_7
    ELSE third_count(
             analyze_awaiting_submitter_transitions_from_api_data(SubSeq(list, 1, Len(list) - 1)),
             third_article(list[Len(list)]))

---------------------------------------------------------------------------
(* Analysis 4: analyze_promoted_to_implemented_transitions_from_api_data *)

\* lines 764-765: days, once the end is found at place ei
fourth_days(v, si, ei) ==
    IF ei = 0 THEN NotCounted
    ELSE Counted(v.priority, TimedeltaDays(v.dates[si], v.dates[ei]), v.dates[si], v.dates[ei])

\* fourth_end with the first later event taken as the end, whatever its
\* status
fourth_end_any_status(v, si) ==
    IF si = 0 THEN NotCounted
    ELSE fourth_days(v, si, FirstIndex({i \in DOMAIN v.dates :
             v.dates[i] > v.dates[si]}))

\* lines 750-762: the first end after the start found at place si
fourth_end(v, si) ==
    IF si = 0 THEN NotCounted
    ELSE fourth_days(v, si, FirstIndex({i \in DOMAIN v.dates :
             /\ v.dates[i] > v.dates[si]
             /\ v.statuses[i] # open_promoted}))

\* lines 739-748: the first start
fourth_start(v) ==
    IF ~v.ok THEN NotCounted
    ELSE fourth_end(v, FirstIndex({i \in DOMAIN v.dates :
             v.statuses[i] = open_promoted}))

fourth_article(article_data) == fourth_start(prepare(article_data))

\* lines 770-781: the bucket of (priority, days)
fourth_bucket(priority, days) ==
    IF priority \in {P1, P2, P3} THEN
        IF RatLt(days, 10) THEN "< 10 days"
        ELSE IF RatLe(days, 15) THEN "10 to 15 days"
        ELSE "> 15 days"
    ELSE \* priority = P4
        IF RatLt(days, 15) THEN "< 15 days"
        ELSE "> 15 days"

\* the loop body for one article: the cell it increments, if any
fourth_count(time_buckets, r) ==
    IF r.counted
    THEN Increment(time_buckets, r.priority, fourth_bucket(r.priority, r.days))
    ELSE time_buckets

\* lines 680-793: the loop over the list
RECURSIVE analyze_promoted_to_implemented_transitions_from_api_data(_)
analyze_promoted_to_implemented_transitions_from_api_data(list) ==
    IF list = <<>> THEN time_buckets_10_15
    ELSE fourth_count(
             analyze_promoted_to_implemented_transitions_from_api_data(SubSeq(list, 1, Len(list) - 1)),
             fourth_article(list[Len(list)]))

---------------------------------------------------------------------------
(* Analysis 5: analyze_new_to_await_user_verify_transitions_from_api_data *)

\* lines 1151-1153: days, once the end is found at place ei
fifth_days(v, si, ei) ==
    IF ei = 0 THEN NotCounted
    ELSE Counted(v.priority, TimedeltaFractionalDays(v.dates[si], v.dates[ei]), v.dates[si], v.dates[ei])

\* lines 1139-1149: the first end after the start found at place si
fifth_end(v, si) ==
    IF si = 0 THEN NotCounted
    ELSE fifth_days(v, si, FirstIndex({i \in DOMAIN v.dates :
             /\ v.dates[i] > v.dates[si]
             /\ v.statuses[i] = implemented_await_user_verify}))

\* lines 1128-1137: the first start
fifth_start(v) ==
    IF ~v.ok THEN NotCounted
    ELSE fifth_end(v, FirstIndex({i \in DOMAIN v.dates :
             v.statuses[i] = open_new}))

fifth_article(article_data) == fifth_start(prepare(article_data))

\* lines 1158-1183: the bucket of (priority, days)
fifth_bucket(priority, days) ==
    IF priority = P1 THEN
        IF RatLt(days, 2) THEN "< 2 days"
        ELSE IF RatLe(days, 5) THEN "2 to 5 days"
        ELSE "> 5 days"
    ELSE IF priority = P2 THEN
        IF RatLt(days, 5) THEN "< 5 days"
        ELSE IF RatLe(days, 7) THEN "6 to 7 days"
        ELSE "> 7 days"
    ELSE IF priority = P3 THEN
        IF RatLt(days, 10) THEN "< 10 days"
        ELSE IF RatLe(days, 15) THEN "10 to 15 days"
        ELSE "> 15 days"
    ELSE \* priority = P4
        IF RatLt(days, 15) THEN "< 15 days"
        ELSE "> 15 days"

\* the loop body for one article: the cell it increments, if any
fifth_count(time_buckets, r) ==
    IF r.counted
    THEN Increment(time_buckets, r.priority, fifth_bucket(r.priority, r.days))
    ELSE time_buckets

\* lines 1069-1195: the loop over the list
RECURSIVE analyze_new_to_await_user_verify_transitions_from_api_data(_)
analyze_new_to_await_user_verify_transitions_from_api_data(list) ==
    IF list = <<>> THEN time_buckets_2_5_7
    ELSE fifth_count(
             analyze_new_to_await_user_verify_transitions_from_api_data(SubSeq(list, 1, Len(list) - 1)),
             fifth_article(list[Len(list)]))

---------------------------------------------------------------------------
(* Analysis 6: analyze_any_to_await_user_verify_transitions_from_api_data *)

\* lines 1282-1298: the pair just before the target found at the 1-based
\* place ti (the source's index is ti - 1)
sixth_previous(v, ti) ==
    IF ti = 0 THEN NotCounted
    ELSE IF ti - 1 = 0 THEN NotCounted
    ELSE IF v.statuses[ti - 1] = open_new THEN NotCounted   \* counted in the fifth analysis
    ELSE Counted(v.priority, TimedeltaFractionalDays(v.dates[ti - 1], v.dates[ti]),
                 v.dates[ti - 1], v.dates[ti])

\* sixth_find with the last implemented_await_user_verify taken as the
\* target
sixth_find_last(v) ==
    IF ~v.ok THEN NotCounted
    ELSE sixth_previous(v,
             IF \A i \in DOMAIN v.dates : v.statuses[i] # implemented_await_user_verify
             THEN 0
             ELSE CHOOSE i \in DOMAIN v.dates :
                      /\ v.statuses[i] = implemented_await_user_verify
                      /\ \A j \in DOMAIN v.dates :
                             v.statuses[j] = implemented_await_user_verify => j <= i)

\* lines 1269-1280: the first implemented_await_user_verify
sixth_find(v) ==
    IF ~v.ok THEN NotCounted
    ELSE sixth_previous(v, FirstIndex({i \in DOMAIN v.dates :
             v.statuses[i] = implemented_await_user_verify}))

sixth_article(article_data) == sixth_find(prepare(article_data))

\* lines 1303-1314: the bucket of (priority, days)
sixth_bucket(priority, days) ==
    IF priority \in {P1, P2, P3} THEN
        IF RatLt(days, 10) THEN "< 10 days"
        ELSE IF RatLe(days, 15) THEN "10 to 15 days"
        ELSE "> 15 days"
    ELSE \* priority = P4
        IF RatLt(days, 15) THEN "< 15 days"
        ELSE "> 15 days"

\* the loop body for one article: the cell it increments, if any
sixth_count(time_buckets, r) ==
    IF r.counted
    THEN Increment(time_buckets, r.priority, sixth_bucket(r.priority, r.days))
    ELSE time_buckets

\* lines 1210-1326: the loop over the list
RECURSIVE analyze_any_to_await_user_verify_transitions_from_api_data(_)
analyze_any_to_await_user_verify_transitions_from_api_data(list) ==
    IF list = <<>> THEN time_buckets_10_15
    ELSE sixth_count(
             analyze_any_to_await_user_verify_transitions_from_api_data(SubSeq(list, 1, Len(list) - 1)),
             sixth_article(list[Len(list)]))

---------------------------------------------------------------------------
(* Analysis 7: analyze_await_user_verify_transitions_from_api_data *)

valid_start_statuses == {implemented, implemented_await_user_verify}   \* line 816
\* valid_end_statuses without 'implemented'
valid_end_statuses_verified_only == {verified}
valid_end_statuses == {implemented, verified}                          \* line 817

\* lines 898-900: days, once the end is found at place ei
seventh_days(v, si, ei) ==
    IF ei = 0 THEN NotCounted
    ELSE Counted(v.priority, TimedeltaFractionalDays(v.dates[si], v.dates[ei]), v.dates[si], v.dates[ei])

\* seventh_end with the end looked for at the places after the start
\* instead of at the later dates
seventh_end_by_index(v, si) ==
    IF si = 0 THEN NotCounted
    ELSE seventh_days(v, si, FirstIndex({i \in DOMAIN v.dates :
             /\ i > si
             /\ v.statuses[i] \in valid_end_statuses
             /\ v.statuses[i] # v.statuses[si]}))

\* lines 884-896: the first end after the start found at place si
seventh_end(v, si) ==
    IF si = 0 THEN NotCounted
    ELSE seventh_days(v, si, FirstIndex({i \in DOMAIN v.dates :
             /\ v.dates[i] > v.dates[si]
             /\ v.statuses[i] \in valid_end_statuses
             /\ v.statuses[i] # v.statuses[si]}))

\* lines 871-882: the first start
seventh_start(v) ==
    IF ~v.ok THEN NotCounted
    ELSE seventh_end(v, FirstIndex({i \in DOMAIN v.dates :
             v.statuses[i] \in valid_start_statuses}))

seventh_article(article_data) == seventh_start(prepare(article_data))

\* lines 905-916: the bucket of (priority, days)
seventh_bucket(priority, days) ==
    IF priority \in {P1, P2, P3} THEN
        IF RatLt(days, 7) THEN "< 7 days"
        ELSE IF RatLe(days, 10) THEN "7 to 10 days"
        ELSE "> 10 days"
    ELSE \* priority = P4
        IF RatLt(days, 10) THEN "< 10 days"
        ELSE "> 10 days"

\* the loop body for one article: the cell it increments, if any
seventh_count(time_buckets, r) ==
    IF r.counted
    THEN Increment(time_buckets, r.priority, seventh_bucket(r.priority, r.days))
    ELSE time_buckets

\* lines 808-928: the loop over the list
RECURSIVE analyze_await_user_verify_transitions_from_api_data(_)
analyze_await_user_verify_transitions_from_api_data(list) ==
    IF list = <<>> THEN time_buckets_7_10
    ELSE seventh_count(
             analyze_await_user_verify_transitions_from_api_data(SubSeq(list, 1, Len(list) - 1)),
             seventh_article(list[Len(list)]))

---------------------------------------------------------------------------
(* Analysis 8: analyze_any_to_complete_product_changed_transitions_from_api_data *)

\* lines 1015-1026: the pair just before the target found at the 1-based
\* place ti (the source's index is ti - 1)
eighth_previous(v, ti) ==
    IF ti = 0 THEN NotCounted
    ELSE IF ti - 1 = 0 THEN NotCounted
    ELSE Counted(v.priority, TimedeltaFractionalDays(v.dates[ti - 1], v.dates[ti]),
                 v.dates[ti - 1], v.dates[ti])

\* lines 1002-1013: the first complete_product_changed
eighth_find(v) ==
    IF ~v.ok THEN NotCounted
    ELSE eighth_previous(v, FirstIndex({i \in DOMAIN v.dates :
             v.statuses[i] = complete_product_changed}))

eighth_article(article_data) == eighth_find(prepare(article_data))

\* lines 1031-1042: the bucket of (priority, days)
eighth_bucket(priority, days) ==
    IF priority \in {P1, P2, P3} THEN
        IF RatLt(days, 10) THEN "< 10 days"
        ELSE IF RatLe(days, 15) THEN "10 to 15 days"
        ELSE "> 15 days"
    ELSE \* priority = P4
        IF RatLt(days, 15) THEN "< 15 days"
        ELSE "> 15 days"

\* the loop body for one article: the cell it increments, if any
eighth_count(time_buckets, r) ==
    IF r.counted
    THEN Increment(time_buckets, r.priority, eighth_bucket(r.priority, r.days))
    ELSE time_buckets

\* lines 943-1054: the loop over the list
RECURSIVE analyze_any_to_complete_product_changed_transitions_from_api_data(_)
analyze_any_to_complete_product_changed_transitions_from_api_data(list) ==
    IF list = <<>> THEN time_buckets_10_15
    ELSE eighth_count(
             analyze_any_to_complete_product_changed_transitions_from_api_data(SubSeq(list, 1, Len(list) - 1)),
             eighth_article(list[Len(list)]))

---------------------------------------------------------------------------
(* get_rejected_articles_summary                                           *)

\* summary_hit without the 'if not rejection_reason' guard
summary_hit_overwrite(acc, trans) ==
    [is_rejected |-> TRUE, rejection_reason |-> Get(trans, "status", <<>>)]

\* lines 142-146: the loop body at a rejected transition, before the break
summary_hit(acc, trans) ==
    [is_rejected |-> TRUE,
     rejection_reason |-> IF acc.rejection_reason = <<>>   \* 'if not rejection_reason'
                          THEN Get(trans, "status", <<>>)
                          ELSE acc.rejection_reason]

\* lines 139-146: the loop over the transitions from the n-th on, with break
\* at the first rejected one; acc holds is_rejected and rejection_reason
RECURSIVE summary_scan(_, _, _)
summary_scan(transitions, n, acc) ==
    IF n > Len(transitions) THEN acc
    ELSE IF Contains(s_rejected, Lower(Get(transitions[n], "status", <<>>)))
    THEN summary_hit(acc, transitions[n])
    ELSE summary_scan(transitions, n + 1, acc)

\* summary_article without the test of the current status (lines 133-136)
summary_article_by_transitions(article_data) ==
    summary_scan(Get(article_data, "transitions", <<>>), 1,
        [is_rejected |-> FALSE, rejection_reason |-> <<>>])

\* lines 129-146: is_rejected and rejection_reason of one article
summary_article(article_data) ==
    summary_scan(Get(article_data, "transitions", <<>>), 1,
        IF Contains(s_rejected, Lower(Get(article_data, "status", <<>>)))
        THEN [is_rejected |-> TRUE, rejection_reason |-> Get(article_data, "status", <<>>)]
        ELSE [is_rejected |-> FALSE, rejection_reason |-> <<>>])

\* lines 148-153
summary_append(rejected, article_data, r) ==
    IF r.is_rejected
    THEN Append(rejected, [id |-> Get(article_data, "id", "Unknown"),
                           reason |-> r.rejection_reason,
                           priority |-> Get(article_data, "priority", <<>>)])
    ELSE rejected

\* lines 122-155
RECURSIVE get_rejected_articles_summary(_)
get_rejected_articles_summary(list) ==
    IF list = <<>> THEN <<>>
    ELSE IF DOMAIN list[Len(list)] = {}
    THEN get_rejected_articles_summary(SubSeq(list, 1, Len(list) - 1))
    ELSE summary_append(get_rejected_articles_summary(SubSeq(list, 1, Len(list) - 1)),
                        list[Len(list)], summary_article(list[Len(list)]))

---------------------------------------------------------------------------
(* Exceptions.  A field the service returned as null is None in the dict,  *)
(* and d.get(k, '') returns that None, not the default; None.lower() and   *)
(* None.upper() raise AttributeError.  No analysis has a try of its own,   *)
(* so the exception leaves the function and is caught at line 1782.        *)

\* The rejection loops (lines 140-146, 192-196, 389-393 and the copies of
\* 192-196): trans.get('status', '').lower() is called on every transition
\* up to the first rejected one, at which the loop breaks.
ScanRaises(transitions) ==
    \E i \in DOMAIN transitions :
        /\ Get(transitions[i], "status", <<>>) = PyNone
        /\ \A j \in 1..(i - 1) :
               ~Contains(s_rejected, Lower(Get(transitions[j], "status", <<>>)))

\* Whether the loop body of a call raises on one article: the summary at
\* lines 133 and 141, analysis 2 at lines 390 and 399, the other analyses
\* at lines 186, 193 and 202 (and their copies).
ArticleRaises(call, article_data) ==
    IF call = "summary" THEN
        /\ DOMAIN article_data # {}
        /\ \/ Get(article_data, "status", <<>>) = PyNone
           \/ ScanRaises(Get(article_data, "transitions", <<>>))
    ELSE IF call = "second" THEN
        /\ ~SkipsArticle(article_data)
        /\ \/ ScanRaises(article_data.transitions)
           \/ /\ ~is_rejected_second(article_data)
              /\ Get(article_data, "priority", <<>>) = PyNone
    ELSE
        /\ ~SkipsArticle(article_data)
        /\ \/ Get(article_data, "status", <<>>) = PyNone
           \/ ScanRaises(article_data.transitions)
           \/ /\ ~is_rejected(article_data)
              /\ Get(article_data, "priority", <<>>) = PyNone

\* Whether a call raises on a list: no loop stops early, so it does as
\* soon as the body raises on one article.
Raises(call, list) == \E i \in DOMAIN list : ArticleRaises(call, list[i])

---------------------------------------------------------------------------
(* create_wcl_bugs_transition_graph_sheet, lines 1375-1401: the summary    *)
(* and the eight analyses, each called once on the same list, in this      *)
(* order; lines 1782-1784: an exception of any of them ends the function   *)
(* with False, and none of the results is written to the sheet.            *)

InitResults ==
    /\ pc = "summary"
    /\ rejected_articles = <<>>
    /\ first_analysis = time_buckets_2_5_7
    /\ second_analysis = time_buckets_10_15
    /\ second_counted = <<>>
    /\ third_analysis = time_buckets_2_5_7
    /\ fourth_analysis = time_buckets_10_15
    /\ fifth_analysis = time_buckets_2_5_7
    /\ sixth_analysis = time_buckets_10_15
    /\ seventh_analysis = time_buckets_7_10
    /\ eighth_analysis = time_buckets_10_15
    /\ rerun = FALSE

Summary ==
    /\ pc = "summary"
    /\ ~Raises("summary", article_data_list)
    /\ rejected_articles' = get_rejected_articles_summary(article_data_list)
    /\ pc' = "first"
    /\ UNCHANGED <<article_data_list, first_analysis, second_analysis, second_counted,
                   third_analysis, fourth_analysis, fifth_analysis, sixth_analysis,
                   seventh_analysis, eighth_analysis, rerun>>

\* First with a table that outlives the call: the counts are added to the
\* table of the previous call
First_accumulating ==
    /\ pc = "first"
    /\ ~Raises("first", article_data_list)
    /\ first_analysis' =
           [p \in Tiers |-> [b \in DOMAIN first_analysis[p] |->
               first_analysis[p][b]
               + analyze_open_new_to_ack_triage_transitions_from_api_data(
                     article_data_list)[p][b]]]
    /\ pc' = "second"
    /\ UNCHANGED <<article_data_list, rejected_articles, second_analysis, second_counted,
                   third_analysis, fourth_analysis, fifth_analysis, sixth_analysis,
                   seventh_analysis, eighth_analysis, rerun>>

First ==
    /\ pc = "first"
    /\ ~Raises("first", article_data_list)
    /\ first_analysis' =
           analyze_open_new_to_ack_triage_transitions_from_api_data(article_data_list)
    /\ pc' = "second"
    /\ UNCHANGED <<article_data_list, rejected_articles, second_analysis, second_counted,
                   third_analysis, fourth_analysis, fifth_analysis, sixth_analysis,
                   seventh_analysis, eighth_analysis, rerun>>

Second ==
    /\ pc = "second"
    /\ ~Raises("second", article_data_list)
    /\ LET r == analyze_start_to_end_transitions_from_api_data(article_data_list) IN
           /\ second_analysis' = r.time_buckets
           /\ second_counted' = r.counted_lines
    /\ pc' = "third"
    /\ UNCHANGED <<article_data_list, rejected_articles, first_analysis,
                   third_analysis, fourth_analysis, fifth_analysis, sixth_analysis,
                   seventh_analysis, eighth_analysis, rerun>>

\* Third with the sort of lines 590-597 done on the transitions list of the
\* article itself
Third_sorting_in_place ==
    /\ pc = "third"
    /\ ~Raises("third", article_data_list)
    /\ third_analysis' =
           analyze_awaiting_submitter_transitions_from_api_data(article_data_list)
    /\ article_data_list' =
           [i \in DOMAIN article_data_list |->
               IF prepare(article_data_list[i]).ok
               THEN [article_data_list[i] EXCEPT !.transitions =
                        [j \in DOMAIN sorted_transitions_of(@) |->
                            sorted_transitions_of(@)[j][2]]]
               ELSE article_data_list[i]]
    /\ pc' = "fourth"
    /\ UNCHANGED <<rejected_articles, first_analysis, second_analysis,
                   second_counted, fourth_analysis, fifth_analysis, sixth_analysis,
                   seventh_analysis, eighth_analysis, rerun>>

Third ==
    /\ pc = "third"
    /\ ~Raises("third", article_data_list)
    /\ third_analysis' =
           analyze_awaiting_submitter_transitions_from_api_data(article_data_list)
    /\ pc' = "fourth"
    /\ UNCHANGED <<article_data_list, rejected_articles, first_analysis, second_analysis,
                   second_counted, fourth_analysis, fifth_analysis, sixth_analysis,
                   seventh_analysis, eighth_analysis, rerun>>

Fourth ==
    /\ pc = "fourth"
    /\ ~Raises("fourth", article_data_list)
    /\ fourth_analysis' =
           analyze_promoted_to_implemented_transitions_from_api_data(article_data_list)
    /\ pc' = "fifth"
    /\ UNCHANGED <<article_data_list, rejected_articles, first_analysis, second_analysis,
                   second_counted, third_analysis, fifth_analysis, sixth_analysis,
                   seventh_analysis, eighth_analysis, rerun>>

Fifth ==
    /\ pc = "fifth"
    /\ ~Raises("fifth", article_data_list)
    /\ fifth_analysis' =
           analyze_new_to_await_user_verify_transitions_from_api_data(article_data_list)
    /\ pc' = "sixth"
    /\ UNCHANGED <<article_data_list, rejected_articles, first_analysis, second_analysis,
                   second_counted, third_analysis, fourth_analysis, sixth_analysis,
                   seventh_analysis, eighth_analysis, rerun>>

Sixth ==
    /\ pc = "sixth"
    /\ ~Raises("sixth", article_data_list)
    /\ sixth_analysis' =
           analyze_any_to_await_user_verify_transitions_from_api_data(article_data_list)
    /\ pc' = "seventh"
    /\ UNCHANGED <<article_data_list, rejected_articles, first_analysis, second_analysis,
                   second_counted, third_analysis, fourth_analysis, fifth_analysis,
                   seventh_analysis, eighth_analysis, rerun>>

Seventh ==
    /\ pc = "seventh"
    /\ ~Raises("seventh", article_data_list)
    /\ seventh_analysis' =
           analyze_await_user_verify_transitions_from_api_data(article_data_list)
    /\ pc' = "eighth"
    /\ UNCHANGED <<article_data_list, rejected_articles, first_analysis, second_analysis,
                   second_counted, third_analysis, fourth_analysis, fifth_analysis,
                   sixth_analysis, eighth_analysis, rerun>>

Eighth ==
    /\ pc = "eighth"
    /\ ~Raises("eighth", article_data_list)
    /\ eighth_analysis' =
           analyze_any_to_complete_product_changed_transitions_from_api_data(
               article_data_list)
    /\ pc' = "done"
    /\ rerun' = FALSE
    /\ UNCHANGED <<article_data_list, rejected_articles, first_analysis, second_analysis,
                   second_counted, third_analysis, fourth_analysis, fifth_analysis,
                   sixth_analysis, seventh_analysis>>

\* lines 1782-1784: the call at pc raises; 'return False'
Except ==
    /\ pc \notin {"done", "failed"}
    /\ Raises(pc, article_data_list)
    /\ pc' = "failed"
    /\ rerun' = FALSE
    /\ UNCHANGED <<article_data_list, rejected_articles, first_analysis, second_analysis,
                   second_counted, third_analysis, fourth_analysis, fifth_analysis,
                   sixth_analysis, seventh_analysis, eighth_analysis>>

\* create_wcl_bugs_transition_graph_sheet is called once more with the list
\* of the call that has returned (line 2410 calls it with the list that
\* create_excel returned); its local variables are those of lines 1376-1401
Rerun ==
    /\ pc \in {"done", "failed"}
    /\ pc' = "summary"
    /\ rerun' = TRUE
    /\ UNCHANGED <<article_data_list, rejected_articles, first_analysis, second_analysis,
                   second_counted, third_analysis, fourth_analysis, fifth_analysis,
                   sixth_analysis, seventh_analysis, eighth_analysis>>

Next ==
    \/ Summary
    \/ First
    \/ Second
    \/ Third
    \/ Fourth
    \/ Fifth
    \/ Sixth
    \/ Seventh
    \/ Eighth
    \/ Except
    \/ Rerun

---------------------------------------------------------------------------
(* Inputs: the lists of articles the analyses are run on.  Each analysis   *)
(* is a function of a list of dicts; create_excel (lines 2191-2196) stores *)
(* an article as a dict with the keys id, priority, status and            *)
(* transitions, the status taken from one fetch of the transitions (line   *)
(* 2177) and the transitions from a second one (line 2195), with the       *)
(* texts as the service returned them.                                     *)

in_P1_SHOWSTOPPER == <<"P","1","-","S","H","O","W","S","T","O","P","P","E","R">>  \* "P1-SHOWSTOPPER"
in_p4 == <<"p","4">>  \* "p4"
in_P2 == <<"P","2">>  \* "P2"
in_p3_medium == <<"p","3","-","m","e","d","i","u","m">>  \* "p3-medium"
in_P5 == <<"P","5">>  \* "P5"
in_P == <<"P">>  \* "P"
in_high == <<"h","i","g","h">>  \* "high"
in_1P == <<"1","P">>  \* "1P"
in_P1X == <<"P","1","X">>  \* "P1X"
in_P1X_FOO == <<"P","1","X","-","F","O","O">>  \* "P1X-FOO"
in_P1_sp_SHOW == <<"P","1"," ","-"," ","S","H","O","W","S","T","O","P","P","E","R">>  \* "P1 - SHOWSTOPPER"
in_PX == <<"P","X">>  \* "PX"
in_P_dash_1 == <<"P","-","1">>  \* "P-1"
in_sp_P1 == <<" ","P","1">>  \* " P1"
in_open == <<"o","p","e","n">>  \* "open"
in_Rejected == <<"R","e","j","e","c","t","e","d">>  \* "Rejected"
in_complete_rejected == <<"C","o","m","p","l","e","t","e",".","R","e","j","e","c","t","e","d">>  \* "Complete.Rejected"
in_rejected_duplicate == <<"r","e","j","e","c","t","e","d",".","d","u","p","l","i","c","a","t","e">>  \* "rejected.duplicate"
in_Rejected_Wont_Fix == <<"R","e","j","e","c","t","e","d",".","W","o","n","t","_","F","i","x">>  \* "Rejected.Wont_Fix"
in_Open_New == <<"O","p","e","n",".","N","e","w">>  \* "Open.New"
in_date_prefix == <<"2","0","2","5","-","0","1","-">>  \* "2025-01-"
in_fraction == <<".","7","4","7">>  \* ".747"
in_na == <<"N","/","A">>  \* "N/A"
in_blanks == <<" "," ">>  \* "  "
in_lt_1_Hour == <<"<"," ","1"," ","H","o","u","r">>  \* "< 1 Hour"
in_LT_1_HOUR == <<"<"," ","1"," ","H","O","U","R">>  \* "< 1 HOUR"
in_sp_lt_1_hour_sp == <<" ","<"," ","1"," ","h","o","u","r"," ">>  \* " < 1 hour "
in_5Days_3_Hours == <<"5","D","a","y","s"," ","3"," ","H","o","u","r","s">>  \* "5Days 3 Hours"
in_5_Days_23_Hours == <<"5"," ","D","a","y","s"," ","2","3"," ","H","o","u","r","s">>  \* "5 Days 23 Hours"
in_28_Days_3_Hours == <<"2","8"," ","D","a","y","s"," ","3"," ","H","o","u","r","s">>  \* "28 Days 3 Hours"
in_Days == <<"D","a","y","s">>  \* "Days"
in_day == <<"d","a","y">>  \* "day"
in_Hours == <<"H","o","u","r","s">>  \* "Hours"
in_hour == <<"h","o","u","r">>  \* "hour"
in_13d19h == <<"1","3"," ","D","a","y","s"," ","1","9"," ","H","o","u","r","s">>  \* "13 Days 19 Hours"
in_9d3h == <<"9"," ","D","a","y","s"," ","3"," ","H","o","u","r","s">>  \* "9 Days 3 Hours"
in_1d0h == <<"1"," ","D","a","y","s"," ","0"," ","H","o","u","r","s">>  \* "1 Days 0 Hours"
in_2h == <<"2"," ","H","o","u","r","s">>  \* "2 Hours"
in_n0 == <<"0">>  \* "0"
in_n1 == <<"1">>  \* "1"
in_n3 == <<"3">>  \* "3"
in_n5 == <<"5">>  \* "5"
in_n9 == <<"9">>  \* "9"
in_n10 == <<"1","0">>  \* "10"
in_n15 == <<"1","5">>  \* "15"
in_n23 == <<"2","3">>  \* "23"
in_n28 == <<"2","8">>  \* "28"

MaxArticles == 2     \* longest list of articles
MaxEvents == 2       \* longest timeline with freely chosen events
MaxPath == 4         \* most events of a path of analysis 2 before its last
MaxSpaces == 2       \* most blanks between a number and its unit
MaxLabel == 3        \* longest priority label made of the characters P, 1, X and -

\* all sequences over S of length at most n
SeqsUpTo(S, n) == UNION {[1..k -> S] : k \in 0..n}

\* the two digits of n < 100, and the timestamp of the moment that is secs
\* seconds after 2025-01-01 00:00:00
TwoDigits(n) == <<DigitChars[(n \div 10) + 1], DigitChars[(n % 10) + 1]>>
DateString(day, hh, mm, ss) ==
    in_date_prefix \o TwoDigits(day) \o <<" ">> \o TwoDigits(hh) \o <<":">>
        \o TwoDigits(mm) \o <<":">> \o TwoDigits(ss)
Moment(secs) ==
    DateString(1 + secs \div 86400, (secs % 86400) \div 3600,
               (secs % 3600) \div 60, secs % 60)

Article(priority, status, transitions) ==
    [id |-> "A1", priority |-> priority, status |-> status, transitions |-> transitions]

\* A path: the i-th event is dated day i, 00:00:00, and carries the i-th
\* recorded duration of the cycle below; an empty one stands for no
\* 'duration' key.
PathDurations == <<in_13d19h, in_9d3h, in_lt_1_Hour, <<>>, in_1d0h, in_2h>>
PathEvent(i, status) ==
    LET dur == PathDurations[((i - 1) % Len(PathDurations)) + 1] IN
    IF dur = <<>>
    THEN [status |-> status, updated_date |-> DateString(i, 0, 0, 0)]
    ELSE [status |-> status, updated_date |-> DateString(i, 0, 0, 0), duration |-> dur]
Path(statuses) == [i \in DOMAIN statuses |-> PathEvent(i, statuses[i])]

\* Lists of up to MaxArticles articles of a small pool
PoolArticles ==
    {Article(in_P1_SHOWSTOPPER, s, Path(<<s1, s2>>)) :
        s \in {in_open, in_Rejected},
        s1 \in {open_new, in_rejected_duplicate}, s2 \in {open_debug, open_acknowledged}}

\* One article per priority label
PriorityLabels ==
    {in_P1_SHOWSTOPPER, in_p4, in_P2, in_p3_medium, in_P5, in_P, in_high, in_1P,
     in_P1X, in_P1X_FOO, in_P1_sp_SHOW, in_PX, in_P_dash_1, in_sp_P1, <<>>}
LabelArticles ==
    {Article(p, in_open, Path(t)) :
        p \in PriorityLabels,
        t \in {<<open_new, open_acknowledged>>, <<in_Open_New, open_debug>>,
               <<implemented, verified>>}}

\* One article per priority label of up to MaxLabel characters out of P, 1,
\* X and -, on a path that analyses 1 and 2 count when the label has a tier
ShortLabels == SeqsUpTo({"P", "1", "X", "-"}, MaxLabel)
ShortLabelArticles ==
    {Article(p, in_open, Path(<<open_new, open_acknowledged, open_debug>>)) :
        p \in ShortLabels}

\* Articles that are rejected by their status, their timeline, or both
RejectEvents ==
    [status : {open_new, in_rejected_duplicate, in_Rejected_Wont_Fix},
     updated_date : {DateString(1, 0, 0, 0), DateString(2, 0, 0, 0)}]
RejectArticles ==
    {Article(in_P1_SHOWSTOPPER, s, t) :
        s \in {in_open, in_Rejected, in_complete_rejected},
        t \in SeqsUpTo(RejectEvents, MaxEvents)}
    \cup {[id |-> "A1", priority |-> in_P2, status |-> s] : s \in {in_open, in_Rejected}}

\* Articles with one interval between two events, of a length at and next
\* to every boundary of the bucket tables
Boundaries == {2, 5, 7, 10, 15}
Intervals ==
    {n * 86400 + d : n \in Boundaries, d \in {-1, 0, 1}}   \* a second less, more
    \cup {5 * 86400 + 3600}                                  \* 5 days 1 hour
TierLabels == {in_P1_SHOWSTOPPER, in_P2, in_p3_medium, in_p4}
IntervalArticles ==
    {Article(p, in_open,
             <<[status |-> s1, updated_date |-> Moment(0)],
               [status |-> s2, updated_date |-> Moment(d)]>>) :
        p \in TierLabels,
        s1 \in {open_new, open_awaiting_submitter, open_promoted,
                implemented_await_user_verify},
        s2 \in {open_acknowledged, implemented_await_user_verify, verified,
                complete_product_changed},
        d \in Intervals}

\* Articles whose events come in any order, some with a timestamp that
\* carries microseconds and some with one that does not parse
OrderEvents ==
    [status : {open_new, open_debug},
     updated_date : {DateString(2, 0, 0, 0), DateString(1, 12, 30, 0) \o in_fraction, in_na},
     duration : {in_2h}]
OrderArticles ==
    {Article(in_P1_SHOWSTOPPER, in_open, t) : t \in SeqsUpTo(OrderEvents, MaxEvents)}

\* Articles with the events of a pattern of each timestamp metric, none of
\* them with a timestamp that parses: 'N/A', or no updated_date at all
PatternPairs ==
    {<<open_new, open_acknowledged>>, <<open_awaiting_submitter, open_debug>>,
     <<open_promoted, implemented>>, <<open_new, implemented_await_user_verify>>,
     <<open_debug, implemented_await_user_verify>>,
     <<implemented_await_user_verify, verified>>, <<open_debug, complete_product_changed>>}
UndatedArticles ==
    {Article(in_P1_SHOWSTOPPER, in_open,
             <<[status |-> t[1], updated_date |-> in_na], [status |-> t[2]]>>) :
        t \in PatternPairs}

\* Articles in which the two events of a pattern carry the same timestamp,
\* in either order of the list, or are followed a day later by the second
\* event once more
TimedEvent(status, secs) == [status |-> status, updated_date |-> Moment(secs)]
TieArticles ==
    {Article(in_P1_SHOWSTOPPER, in_open, <<TimedEvent(t[1], 0), TimedEvent(t[2], 0)>>) :
        t \in PatternPairs}
    \cup {Article(in_P1_SHOWSTOPPER, in_open, <<TimedEvent(t[2], 0), TimedEvent(t[1], 0)>>) :
        t \in PatternPairs}
    \cup {Article(in_P1_SHOWSTOPPER, in_open,
                  <<TimedEvent(t[1], 0), TimedEvent(t[2], 0), TimedEvent(t[2], 86400)>>) :
        t \in PatternPairs}

\* Articles on the paths of analysis 2: up to MaxPath events with a start,
\* an end or an early-stop status, and then an implemented or nothing
PathStatuses == {open_new, open_debug, open_awaiting_submitter}
PathArticles ==
    {Article(in_P1_SHOWSTOPPER, in_open, Path(t \o tail)) :
        t \in SeqsUpTo(PathStatuses, MaxPath), tail \in {<<>>, <<implemented>>}}

\* Articles with statuses whose durations analysis 2 leaves out of the sum
ExcludedArticles ==
    {Article(in_P1_SHOWSTOPPER, in_open, Path(<<open_new>> \o t \o <<implemented>>)) :
        t \in SeqsUpTo({open_promoted, open_awaiting_3rd_party, open_triage}, MaxEvents)}

\* Articles in which statuses that have 'implemented' as a prefix follow an
\* end status of analysis 2
PrefixArticles ==
    {Article(in_P1_SHOWSTOPPER, in_open, Path(<<open_new, open_debug>> \o t)) :
        t \in SeqsUpTo({implemented, implemented_await_user_verify}, MaxEvents)}

\* Articles of the late stages, one event a day: the statuses that metrics
\* 5, 6, 7 and 8 look for, with re-entries
StageStatuses ==
    {open_new, implemented, implemented_await_user_verify, verified,
     complete_product_changed}
StageArticles ==
    {Article(in_P1_SHOWSTOPPER, in_open, Path(t)) :
        t \in SeqsUpTo(StageStatuses, MaxEvents + 1)}

\* Articles in which open.promoted is repeated, followed or not by another
\* status
RepeatArticles ==
    {Article(in_P2, in_open, Path(t)) :
        t \in SeqsUpTo({open_promoted, open_debug}, MaxEvents + 1)}

\* Articles with a start status, an early-stop status and an end status of
\* analysis 2 in that order in the list, their timestamps in any order of
\* three days, all on one day, or 'N/A'; and one with a day between its
\* events, where the early-stop status also comes first
DayOrders ==
    {<<1, 2, 3>>, <<1, 3, 2>>, <<2, 1, 3>>, <<2, 3, 1>>, <<3, 1, 2>>, <<3, 2, 1>>,
     <<1, 1, 1>>}
DropStatuses ==
    {<<s, x, e>> : s \in {open_new, open_acknowledged},
                   x \in {open_awaiting_submitter, implemented_await_user_verify},
                   e \in {open_debug, implemented}}
DropArticles ==
    {Article(in_P1_SHOWSTOPPER, in_open,
             [i \in 1..3 |-> [status |-> t[i], updated_date |-> DateString(d[i], 0, 0, 0)]]) :
        t \in DropStatuses, d \in DayOrders}
    \cup {Article(in_P1_SHOWSTOPPER, in_open,
                  [i \in 1..3 |-> [status |-> t[i], updated_date |-> in_na]]) :
        t \in DropStatuses}
    \cup {Article(in_P1_SHOWSTOPPER, in_open,
                  Path(<<implemented_await_user_verify, open_acknowledged,
                         implemented_await_user_verify, open_debug>>))}

\* Recorded durations: an optional count of days and an optional count of
\* hours, each a number, the same 1..MaxSpaces blanks in both and the unit in
\* one of its spellings; and a few texts of other shapes
Blanks(n) == [i \in 1..n |-> " "]
Counts(numbers, units, k) ==
    {<<>>} \cup {n \o Blanks(k) \o u : n \in numbers, u \in units}
Joined(d, h) == IF d # <<>> /\ h # <<>> THEN d \o <<" ">> \o h ELSE d \o h
SpacedDurations(k) ==
    {Joined(d, h) :
        d \in Counts({in_n5, in_n9, in_n10, in_n15, in_n28}, {in_Days, in_day}, k),
        h \in Counts({in_n0, in_n1, in_n3, in_n23}, {in_Hours, in_hour}, k)}
DurationStrings ==
    UNION {SpacedDurations(k) : k \in 1..MaxSpaces}
    \cup {in_na, in_blanks, in_lt_1_Hour, in_LT_1_HOUR, in_sp_lt_1_hour_sp, in_5Days_3_Hours}
DurationArticles ==
    {Article(p, in_open,
             <<[status |-> open_new, updated_date |-> DateString(1, 0, 0, 0),
                duration |-> x],
               [status |-> implemented, updated_date |-> DateString(2, 0, 0, 0)]>>) :
        p \in {in_P1_SHOWSTOPPER, in_p4}, x \in DurationStrings}

\* Articles with a field that is null (a priority, a current status, the
\* status of an event), each in a list with one article that is well formed
NullEvent(i) == [status |-> PyNone, updated_date |-> DateString(i, 0, 0, 0)]
MalformedArticles ==
    {Article(PyNone, in_open, Path(<<open_new, open_acknowledged>>)),
     Article(PyNone, in_open, Path(<<in_rejected_duplicate, open_new>>)),
     Article(in_P1_SHOWSTOPPER, PyNone, Path(<<open_new, open_acknowledged>>)),
     Article(in_P1_SHOWSTOPPER, in_open, <<PathEvent(1, open_new), NullEvent(2)>>),
     Article(in_P1_SHOWSTOPPER, in_open, <<PathEvent(1, in_rejected_duplicate), NullEvent(2)>>)}
WellFormedArticles ==
    {Article(in_P2, in_open, Path(<<open_new, open_acknowledged>>)),
     Article(in_p4, in_open, Path(<<open_new, open_debug>>))}
MalformedLists ==
    {<<a, b>> : a \in MalformedArticles, b \in WellFormedArticles}
    \cup {<<b, a>> : a \in MalformedArticles, b \in WellFormedArticles}

InputLists ==
    SeqsUpTo(PoolArticles, MaxArticles)
    \cup {<<a>> : a \in LabelArticles \cup RejectArticles \cup IntervalArticles
                        \cup OrderArticles \cup PathArticles \cup ExcludedArticles
                        \cup DurationArticles \cup UndatedArticles
                        \cup TieArticles \cup PrefixArticles \cup StageArticles
                        \cup RepeatArticles \cup DropArticles
                        \cup ShortLabelArticles}
    \cup MalformedLists

Init ==
    /\ article_data_list \in InputLists
    /\ InitResults

Spec == Init /\ [][Next]_vars

---------------------------------------------------------------------------
(* Properties.  A table is read once the whole run is over; the k-th       *)
(* analysis is the k-th of the specification's metrics, which the source   *)
(* calls in the order 1, 2, 3, 4, 5, 6, 7, 8.                              *)

Done == pc = "done"
Single == Len(article_data_list) = 1

Metrics == 1..8
TimestampMetrics == {1, 3, 4, 5, 6, 7, 8}

Tables ==
    <<first_analysis, second_analysis, third_analysis, fourth_analysis,
      fifth_analysis, sixth_analysis, seventh_analysis, eighth_analysis>>

\* the table the k-th analysis returns for a list
Analyze(k, list) ==
    CASE k = 1 -> analyze_open_new_to_ack_triage_transitions_from_api_data(list)
      [] k = 2 -> analyze_start_to_end_transitions_from_api_data(list).time_buckets
      [] k = 3 -> analyze_awaiting_submitter_transitions_from_api_data(list)
      [] k = 4 -> analyze_promoted_to_implemented_transitions_from_api_data(list)
      [] k = 5 -> analyze_new_to_await_user_verify_transitions_from_api_data(list)
      [] k = 6 -> analyze_any_to_await_user_verify_transitions_from_api_data(list)
      [] k = 7 -> analyze_await_user_verify_transitions_from_api_data(list)
      [] k = 8 -> analyze_any_to_complete_product_changed_transitions_from_api_data(list)

\* what the loop body of the k-th analysis does with one article
Outcome(k, article_data) ==
    CASE k = 1 -> first_article(article_data)
      [] k = 2 -> second_article(article_data)
      [] k = 3 -> third_article(article_data)
      [] k = 4 -> fourth_article(article_data)
      [] k = 5 -> fifth_article(article_data)
      [] k = 6 -> sixth_article(article_data)
      [] k = 7 -> seventh_article(article_data)
      [] k = 8 -> eighth_article(article_data)

\* the same from the sorted view v of the article, for the analyses that
\* sort the timeline
ViewOutcome(k, v) ==
    CASE k = 1 -> first_start(v)
      [] k = 3 -> third_start(v)
      [] k = 4 -> fourth_start(v)
      [] k = 5 -> fifth_start(v)
      [] k = 6 -> sixth_find(v)
      [] k = 7 -> seventh_start(v)
      [] k = 8 -> eighth_find(v)

\* the sorted views of the articles of a list, and the outcome of the k-th
\* analysis for the i-th article read from them
RECURSIVE ViewsUpTo(_, _)
ViewsUpTo(list, n) ==
    IF n = 0 THEN <<>> ELSE Append(ViewsUpTo(list, n - 1), prepare(list[n]))
Views(list) == ViewsUpTo(list, Len(list))
OutcomeIn(k, list, views, i) ==
    IF k = 2 THEN second_article(list[i]) ELSE ViewOutcome(k, views[i])
RECURSIVE OutcomesUpTo(_, _, _, _)
OutcomesUpTo(k, list, views, n) ==
    IF n = 0 THEN <<>>
    ELSE Append(OutcomesUpTo(k, list, views, n - 1), OutcomeIn(k, list, views, n))
Outcomes(k, list, views) == OutcomesUpTo(k, list, views, Len(list))

RECURSIVE SumOver(_, _)
SumOver(f, S) ==
    IF S = {} THEN 0
    ELSE LET x == CHOOSE y \in S : TRUE IN f[x] + SumOver(f, S \ {x})
RowTotal(table, p) == SumOver(table[p], DOMAIN table[p])
Total(table) == SumOver([p \in Tiers |-> RowTotal(table, p)], Tiers)

Greatest(S) == CHOOSE x \in S : \A y \in S : x >= y

\* The rejection rule of the specification: the current status or any event
\* of the timeline holds "rejected", in any case of the letters.
ClaimRejected(a) ==
    \/ Contains(s_rejected, Lower(Get(a, "status", <<>>)))
    \/ \E i \in DOMAIN Get(a, "transitions", <<>>) :
           Contains(s_rejected, Lower(Get(a.transitions[i], "status", <<>>)))

\* The tier rule of the specification: the first two characters of the
\* upper-cased label when it begins with P and a digit.
ClaimTier(label) ==
    IF Len(label) >= 2 /\ UpperChar(label[1]) = "P" /\ IsDigit(label[2])
    THEN <<"P", label[2]>>
    ELSE PyNone

\* The normalized timeline of the specification: the events whose timestamp
\* parses, in ascending order of timestamp.
Normalized(transitions) ==
    LET st == sorted_transitions_of(transitions) IN [i \in DOMAIN st |-> st[i][2]]
NormalizedArticle(a) ==
    IF "transitions" \in DOMAIN a THEN [a EXCEPT !.transitions = Normalized(@)] ELSE a

\* The bucket tables of the specification: the thresholds of a tier in a
\* metric, the names of its buckets from the lowest to the highest, and the
\* bucket of a duration of d days.
ClaimThresholds(k, tier) ==
    IF k \in {1, 3, 5}
    THEN CASE tier = P1 -> <<2, 5>>
           [] tier = P2 -> <<5, 7>>
           [] tier = P3 -> <<10, 15>>
           [] tier = P4 -> <<15>>
    ELSE IF k = 7
    THEN IF tier = P4 THEN <<10>> ELSE <<7, 10>>
    ELSE IF tier = P4 THEN <<15>> ELSE <<10, 15>>
ClaimNames(k, tier) ==
    IF k \in {1, 3, 5}
    THEN CASE tier = P1 -> <<"< 2 days", "2 to 5 days", "> 5 days">>
           [] tier = P2 -> <<"< 5 days", "6 to 7 days", "> 7 days">>
           [] tier = P3 -> <<"< 10 days", "10 to 15 days", "> 15 days">>
           [] tier = P4 -> <<"< 15 days", "> 15 days">>
    ELSE IF k = 7
    THEN IF tier = P4 THEN <<"< 10 days", "> 10 days">>
         ELSE <<"< 7 days", "7 to 10 days", "> 10 days">>
    ELSE IF tier = P4 THEN <<"< 15 days", "> 15 days">>
         ELSE <<"< 10 days", "10 to 15 days", "> 15 days">>
ClaimBucket(k, tier, d) ==
    LET t == ClaimThresholds(k, tier)
        names == ClaimNames(k, tier)
    IN  IF Len(t) = 2
        THEN IF d.num < t[1] * d.den THEN names[1]
             ELSE IF d.num <= t[2] * d.den THEN names[2]
             ELSE names[3]
        ELSE IF d.num < t[1] * d.den THEN names[1] ELSE names[2]

\* the number of articles of the list that the outcomes out put in the cell
\* (p, b) when the duration of an outcome is Days(outcome)
CellCount(k, out, Days(_), p, b) ==
    Cardinality({i \in DOMAIN out :
        /\ out[i].counted
        /\ out[i].priority = p
        /\ ClaimBucket(k, p, Days(out[i])) = b})

\* C1: for each of the eight analyses and every list, the sum of all cells
\* of the returned table is the number of articles of the list that are not
\* rejected, have a tier among P1..P4 and match the pattern of the metric.
\* An article matches the pattern when the analysis counts its normalized
\* timeline under a tier of the table.
Probe(a) == [priority |-> P1, transitions |-> Normalized(Get(a, "transitions", <<>>))]
Matches(k, a) == Total(Analyze(k, <<Probe(a)>>)) = 1
ClaimCounted(k, a) ==
    /\ ~ClaimRejected(a)
    /\ ClaimTier(Get(a, "priority", <<>>)) \in Tiers
    /\ Matches(k, a)
C1_SumOfCells ==
    Done =>
        \A k \in Metrics :
            Total(Tables[k]) =
                Cardinality({i \in DOMAIN article_data_list :
                                ClaimCounted(k, article_data_list[i])})

\* C2: when every article of the list is rejected (by its current status or
\* by an event of its timeline), every cell of every one of the eight tables
\* is zero.
C2_RejectedInNoCell ==
    (Done /\ \A i \in DOMAIN article_data_list : ClaimRejected(article_data_list[i]))
        => \A k \in Metrics : Total(Tables[k]) = 0

\* C3: in each timestamp metric (1, 3, 4, 5, 6, 7, 8) every cell holds the
\* number of counted articles whose end timestamp minus start timestamp, as
\* a fraction of days, falls in the range of that cell.
FractionalDays(outcome) == Rat(outcome.end_date - outcome.start_date, 86400)
C3_FractionalDays ==
    Done =>
        LET views == Views(article_data_list) IN
        \A k \in TimestampMetrics :
            LET out == Outcomes(k, article_data_list, views)
            IN  \A p \in Tiers : \A b \in DOMAIN Tables[k][p] :
                    Tables[k][p][b] = CellCount(k, out, FractionalDays, p, b)

\* C4: in each of the eight metrics every cell holds the number of counted
\* articles whose duration d, as the analysis computed it, falls in the
\* range of that cell by the thresholds of the tables: d < lo the first
\* bucket, lo <= d <= hi the middle one, d > hi the last one, and for P4
\* d < t the first and everything else the last.
ComputedDays(outcome) == outcome.days
C4_Bucketing ==
    Done =>
        LET views == Views(article_data_list) IN
        \A k \in Metrics :
            LET out == Outcomes(k, article_data_list, views)
            IN  \A p \in Tiers : \A b \in DOMAIN Tables[k][p] :
                    Tables[k][p][b] = CellCount(k, out, ComputedDays, p, b)

\* a P1 article whose first analysis measured exactly 2 days is in the cell
\* '2 to 5 days'
C4_Witness ==
    /\ Done
    /\ Single
    /\ first_article(article_data_list[1]).counted
    /\ first_article(article_data_list[1]).priority = P1
    /\ first_article(article_data_list[1]).end_date
           - first_article(article_data_list[1]).start_date = 2 * 86400
    /\ first_analysis[P1]["2 to 5 days"] = 1
    /\ first_analysis[P1]["< 2 days"] = 0

\* C5: every analysis treats a label as it treats the tier the rule of the
\* specification derives from it: each table equals the table of the list
\* in which every label is replaced by its tier when that is one of P1..P4
\* and by the empty label otherwise.
Relabelled(a) ==
    IF "priority" \in DOMAIN a
    THEN [a EXCEPT !.priority = IF ClaimTier(@) \in Tiers THEN ClaimTier(@) ELSE <<>>]
    ELSE a
C5_TierFromPrefix ==
    Done =>
        \A k \in Metrics :
            Tables[k] = Analyze(k, [i \in DOMAIN article_data_list |->
                                       Relabelled(article_data_list[i])])

\* C6 as the specification states it: for an article whose current status
\* and timeline are both rejected, the reason of the summary is the status
\* of the rejected event with the earliest timestamp.
BothRejected(a) ==
    /\ Contains(s_rejected, Lower(Get(a, "status", <<>>)))
    /\ "transitions" \in DOMAIN a
    /\ \E i \in DOMAIN a.transitions :
           Contains(s_rejected, Lower(Get(a.transitions[i], "status", <<>>)))
RejectedEvents(a) ==
    {i \in DOMAIN Get(a, "transitions", <<>>) :
        Contains(s_rejected, Lower(Get(a.transitions[i], "status", <<>>)))}
EarliestRejected(a) ==
    CHOOSE i \in RejectedEvents(a) :
        \A j \in RejectedEvents(a) :
            \/ parse_date(a.transitions[i].updated_date)
                   < parse_date(a.transitions[j].updated_date)
            \/ /\ parse_date(a.transitions[i].updated_date)
                      = parse_date(a.transitions[j].updated_date)
               /\ i <= j
C6_TimelineReasonFirst ==
    (Done /\ Single /\ BothRejected(article_data_list[1]))
        => /\ Len(rejected_articles) = 1
           /\ rejected_articles[1].reason =
                  article_data_list[1].transitions[
                      EarliestRejected(article_data_list[1])].status

\* C6 as amended: the summary has an entry for an article exactly when its
\* current status or an event of its timeline is rejected; the reason is the
\* current status as written whenever the current status is rejected, and
\* otherwise the status of the first rejected event in the order of the
\* list of events.
C6_StatusReasonFirst ==
    (Done /\ Single) =>
        LET a == article_data_list[1] IN
        IF Contains(s_rejected, Lower(Get(a, "status", <<>>)))
        THEN /\ Len(rejected_articles) = 1
             /\ rejected_articles[1].reason = a.status
        ELSE IF RejectedEvents(a) # {}
        THEN /\ Len(rejected_articles) = 1
             /\ rejected_articles[1].reason = a.transitions[Least(RejectedEvents(a))].status
        ELSE rejected_articles = <<>>

\* an article rejected by its status and by an event, reported with its
\* status
C6_Witness ==
    /\ Done
    /\ Single
    /\ BothRejected(article_data_list[1])
    /\ Len(rejected_articles) = 1
    /\ rejected_articles[1].reason = article_data_list[1].status
    /\ rejected_articles[1].reason
           # article_data_list[1].transitions[EarliestRejected(article_data_list[1])].status

\* C7: each of the eight tables equals the table of the list in which every
\* timeline is replaced by its normalized form (the events with an
\* unparsable timestamp deleted, the others in ascending order).
C7_NormalizedTimeline ==
    Done =>
        \A k \in Metrics :
            Tables[k] = Analyze(k, [i \in DOMAIN article_data_list |->
                                       NormalizedArticle(article_data_list[i])])

\* The events of a timeline that analysis 2 adds up between a start and an
\* end index (0-based, the end excluded): those whose status is not
\* excluded; a missing duration is 0.  In half hours.
StatusAt(transitions, i) == Lower(Get(transitions[i + 1], "status", <<>>))
Summed(transitions, start, end) ==
    {i \in start..(end - 1) :
        StatusAt(transitions, i) \notin {open_promoted, open_awaiting_3rd_party}}
HoursOf(transitions, S) ==
    SumOver([i \in S |-> IF "duration" \in DOMAIN transitions[i + 1]
                         THEN parse_time_spent_to_hours(transitions[i + 1].duration)
                         ELSE 0], S)
EndEvents(transitions, S) ==
    {i \in S : StatusAt(transitions, i)
                   \in {open_debug, open_promoted, open_root_caused, implemented}}
EarlyStops(transitions, S) ==
    {i \in S : StatusAt(transitions, i)
                   \in {open_awaiting_submitter, implemented_await_user_verify}}

\* C8: when a counted article has an early-stop status between its start and
\* the latest end status of its timeline, the end the sum runs to is the
\* last end status at or after the start and before the first early-stop
\* event, and the sum holds nothing from that end on.  On the path open.new,
\* open.debug, open.awaiting_submitter, open.debug, implemented only the
\* duration recorded on open.new is summed.
C8_EarlyStopTruncation ==
    (Done /\ Single /\ Len(second_counted) = 1) =>
        LET t == article_data_list[1].transitions
            r == second_counted[1]
            start == r.last_start_index
            end == Greatest(EndEvents(t, 0..(Len(t) - 1)))
            stops == EarlyStops(t, start..end)
        IN  /\ stops # {} =>
                /\ EndEvents(t, start..(Least(stops) - 1)) # {}
                /\ r.latest_end_index = Greatest(EndEvents(t, start..(Least(stops) - 1)))
                /\ r.total_hours = HoursOf(t, Summed(t, start, r.latest_end_index))
                /\ r.latest_end_index < Least(stops)
            /\ t = Path(<<open_new, open_debug, open_awaiting_submitter, open_debug,
                         implemented>>)
                   => /\ r.duration_parts = <<<<open_new, in_13d19h>>>>
                      /\ r.total_hours = 2 * (13 * 24 + 19)

\* the path of the example, counted with the sum stopped at the first
\* open.debug
C8_Witness ==
    /\ Done
    /\ Single
    /\ Len(second_counted) = 1
    /\ article_data_list[1].transitions =
           Path(<<open_new, open_debug, open_awaiting_submitter, open_debug, implemented>>)
    /\ second_counted[1].early_stop_index = 2
    /\ second_counted[1].latest_end_index = 1
    /\ second_counted[1].total_hours = 662

\* C9: the duration of a counted article in analysis 2 is the sum of the
\* parsed durations of the events from the start to just before the end,
\* the excluded statuses skipped and a missing duration 0, divided by 24
\* (here: half hours divided by 48), and that is the duration bucketed.  On
\* the path open.new (13 Days 19 Hours), open.debug (9 Days 3 Hours),
\* implemented it is 550 hours, in '> 15 days' for P1.
C9_DurationSum ==
    (Done /\ Single /\ Len(second_counted) = 1) =>
        LET t == article_data_list[1].transitions
            r == second_counted[1]
            hours == HoursOf(t, Summed(t, r.last_start_index, r.latest_end_index))
        IN  /\ r.total_hours = hours
            /\ second_analysis[r.priority][ClaimBucket(2, r.priority, Rat(hours, 48))] = 1
            /\ Total(second_analysis) = 1
            /\ t = Path(<<open_new, open_debug, implemented>>)
                   => /\ r.total_hours = 2 * 550
                      /\ r.priority = P1
                      /\ second_analysis[P1]["> 15 days"] = 1

\* a counted path with an open.promoted between start and end, whose
\* duration is left out of the sum
C9_Witness ==
    /\ Done
    /\ Single
    /\ Len(second_counted) = 1
    /\ article_data_list[1].transitions = Path(<<open_new, open_promoted, implemented>>)
    /\ second_counted[1].excluded_parts = <<<<open_promoted, in_9d3h>>>>
    /\ second_counted[1].total_hours = 2 * (13 * 24 + 19)

\* The reading of a recorded duration in the specification, in half hours:
\* the text "< 1 hour" is half an hour; otherwise 24 times the whole number
\* that stands before the word day or days plus the whole number that
\* stands before the word hour or hours, each 0 when there is none.
RECURSIVE Words(_, _)
Words(s, word) ==
    IF s = <<>> THEN (IF word = <<>> THEN <<>> ELSE <<word>>)
    ELSE IF Head(s) \in SpaceChars
    THEN (IF word = <<>> THEN <<>> ELSE <<word>>) \o Words(Tail(s), <<>>)
    ELSE Words(Tail(s), Append(word, Head(s)))
IsNumber(word) == word # <<>> /\ \A i \in DOMAIN word : IsDigit(word[i])
NumberBefore(words, units) ==
    LET at == {i \in 1..(Len(words) - 1) : IsNumber(words[i]) /\ words[i + 1] \in units}
    IN  IF at = {} THEN 0 ELSE IntOf(words[Least(at)])
ClaimHalfHours(text) ==
    LET words == Words(Lower(text), <<>>) IN
    IF words = << <<"<">>, <<"1">>, <<"h","o","u","r">> >> THEN 1
    ELSE 2 * (24 * NumberBefore(words, {<<"d","a","y">>, <<"d","a","y","s">>})
              + NumberBefore(words, {<<"h","o","u","r">>, <<"h","o","u","r","s">>}))

\* C10: the hours analysis 2 adds up for a counted article are the sum of
\* the readings of the durations it lists, each 24 * D + H with "< 1 hour"
\* as 0.5; '5 Days 23 Hours' is 143, '< 1 Hour' is 0.5 and '28 Days 3 Hours'
\* is 675.
C10_ParseTimeSpent ==
    (Done /\ Single /\ Len(second_counted) = 1) =>
        LET r == second_counted[1]
            parts == r.duration_parts
        IN  /\ r.total_hours =
                   SumOver([j \in DOMAIN parts |-> ClaimHalfHours(parts[j][2])], DOMAIN parts)
            /\ parts = <<<<open_new, in_5_Days_23_Hours>>>> => r.total_hours = 2 * 143
            /\ parts = <<<<open_new, in_lt_1_Hour>>>> => r.total_hours = 1
            /\ parts = <<<<open_new, in_28_Days_3_Hours>>>> => r.total_hours = 2 * 675

\* an article whose only summed duration is '< 1 Hour', counted with half an
\* hour
C10_Witness ==
    /\ Done
    /\ Single
    /\ Len(second_counted) = 1
    /\ second_counted[1].duration_parts = <<<<open_new, in_lt_1_Hour>>>>
    /\ second_counted[1].total_hours = 1

\* C11: when one article of the list has a field that is null (its priority,
\* its current status or the status of one of its events) and the others
\* are well formed, no call of create_wcl_bugs_transition_graph_sheet ends
\* in an exception, and each of the eight tables is the table of the list
\* without that article.
Malformed(a) ==
    \/ Get(a, "priority", <<>>) = PyNone
    \/ Get(a, "status", <<>>) = PyNone
    \/ \E i \in DOMAIN Get(a, "transitions", <<>>) :
           Get(a.transitions[i], "status", <<>>) = PyNone
WellFormedPart(list) == SelectSeq(list, LAMBDA a : ~Malformed(a))
C11_MalformedIsolated ==
    Cardinality({i \in DOMAIN article_data_list : Malformed(article_data_list[i])}) = 1
        => /\ pc # "failed"
           /\ Done => \A k \in Metrics :
                          Tables[k] = Analyze(k, WellFormedPart(article_data_list))

\* C12: at every point of the run each of the eight tables has exactly the
\* keys P1, P2, P3, P4, each row has exactly the bucket names of its metric
\* and tier, and every cell is a count; when an analysis counts no article
\* of the list (the empty list among them) every cell of its table is 0.
BucketNames(k, p) == {ClaimNames(k, p)[i] : i \in DOMAIN ClaimNames(k, p)}
C12_FixedKeys ==
    LET views == Views(article_data_list) IN
    \A k \in Metrics :
        /\ DOMAIN Tables[k] = Tiers
        /\ \A p \in Tiers :
               /\ DOMAIN Tables[k][p] = BucketNames(k, p)
               /\ \A b \in DOMAIN Tables[k][p] : Tables[k][p][b] \in Nat
        /\ (Done /\ \A i \in DOMAIN article_data_list :
                        ~OutcomeIn(k, article_data_list, views, i).counted)
               => \A p \in Tiers : \A b \in DOMAIN Tables[k][p] : Tables[k][p][b] = 0

\* the seventh analysis has counted a P4 article in one cell of its row of
\* two, and the other cell is there with 0
C12_Witness ==
    /\ Done
    /\ \E i \in DOMAIN article_data_list :
           /\ seventh_article(article_data_list[i]).counted
           /\ seventh_article(article_data_list[i]).priority = P4
    /\ \E b \in DOMAIN seventh_analysis[P4] : seventh_analysis[P4][b] > 0
    /\ \E b \in DOMAIN seventh_analysis[P4] : seventh_analysis[P4][b] = 0
    /\ \A b \in DOMAIN seventh_analysis[P1] : seventh_analysis[P1][b] = 0

\* C13: for each metric the table of a list is the cell-wise sum of the
\* tables of any front part of the list and of the rest of it, and the table
\* of every permutation of the list is the table of the list.
CellSum(s, t) == [p \in DOMAIN s |-> [b \in DOMAIN s[p] |-> s[p][b] + t[p][b]]]
Permuted(list, f) == [i \in DOMAIN list |-> list[f[i]]]
C13_Mergeable ==
    Done =>
        \A k \in Metrics :
            LET whole == Analyze(k, article_data_list)
                Part(list) == IF list = article_data_list THEN whole
                              ELSE Analyze(k, list)
            IN  /\ \A n \in 0..Len(article_data_list) :
                       Tables[k] =
                           CellSum(Part(SubSeq(article_data_list, 1, n)),
                                   Part(SubSeq(article_data_list, n + 1,
                                               Len(article_data_list))))
                /\ \A f \in Permutations(DOMAIN article_data_list) :
                       Part(Permuted(article_data_list, f)) = Tables[k]

\* two different articles of one list are counted in the same cell of the
\* second analysis
C13_Witness ==
    /\ Done
    /\ Len(article_data_list) = 2
    /\ article_data_list[1] # article_data_list[2]
    /\ second_article(article_data_list[1]).counted
    /\ second_article(article_data_list[2]).counted
    /\ \E b \in DOMAIN second_analysis[P1] : second_analysis[P1][b] = 2

\* C14: when create_wcl_bugs_transition_graph_sheet is called again on the
\* same list, every call of the repeated run (the summary and each of the
\* eight analyses) returns what it returned in the run before: no step of a
\* repeated run changes a result.
Results ==
    <<rejected_articles, first_analysis, second_analysis, second_counted,
      third_analysis, fourth_analysis, fifth_analysis, sixth_analysis,
      seventh_analysis, eighth_analysis>>
EmptyTimeline(a) == Get(a, "transitions", <<>>) = <<>>
NoParsableEvent(a) == Normalized(Get(a, "transitions", <<>>)) = <<>>
C16_EmptyTimeline ==
    (Single /\ ~Malformed(article_data_list[1]))
        => LET a == article_data_list[1] IN
           /\ pc = "failed" => ~NoParsableEvent(a)
           /\ (Done /\ EmptyTimeline(a)) => \A k \in Metrics : Total(Tables[k]) = 0
           /\ (Done /\ NoParsableEvent(a))
                  => \A k \in TimestampMetrics : Total(Tables[k]) = 0
           /\ (Done /\ EmptyTimeline(a)
                    /\ Contains(s_rejected, Lower(Get(a, "status", <<>>))))
                  => rejected_articles =
                         <<[id |-> a.id, reason |-> a.status, priority |-> a.priority]>>

\* an article without a transitions field and with the status 'Rejected'
\* has gone through all calls: the summary reports it, no table counts it
C16_Witness ==
    /\ Done
    /\ Single
    /\ "transitions" \notin DOMAIN article_data_list[1]
    /\ article_data_list[1].status = in_Rejected
    /\ Len(rejected_articles) = 1
    /\ rejected_articles[1].reason = in_Rejected
    /\ \A k \in Metrics : Total(Tables[k]) = 0

\* C17: whenever an analysis counts an article, the duration it buckets is
\* not negative; in metrics 1, 3, 4, 5 and 7 the end timestamp is later than
\* the start timestamp by at least a second, in metrics 6 and 8 it is not
\* earlier, and in metric 2 the sum of the parsed durations is not negative.
C17_NonNegative ==
    Done =>
        LET views == Views(article_data_list) IN
        \A i \in DOMAIN article_data_list : \A k \in Metrics :
            LET r == OutcomeIn(k, article_data_list, views, i) IN
            r.counted =>
                /\ r.days.num >= 0 /\ r.days.den > 0
                /\ k \in {1, 3, 4, 5, 7} => r.end_date - r.start_date >= 1
                /\ k \in {6, 8} => r.end_date - r.start_date >= 0
                /\ k = 2 => r.total_hours >= 0

\* metric 8 has counted an article whose complete.product_changed carries
\* the timestamp of the event before it: a duration of 0 days
C17_Witness ==
    /\ Done
    /\ Single
    /\ eighth_article(article_data_list[1]).counted
    /\ eighth_article(article_data_list[1]).end_date
           = eighth_article(article_data_list[1]).start_date
    /\ eighth_analysis[P1]["< 10 days"] = 1

\* The start set and the end condition of the metrics with a first-after
\* end policy, and the place of the first start in a sorted timeline v
FirstAfterMetrics == {1, 3, 4, 5, 7}
StartStatuses(k) ==
    CASE k = 1 -> {open_new}
      [] k = 3 -> {open_awaiting_submitter}
      [] k = 4 -> {open_promoted}
      [] k = 5 -> {open_new}
      [] k = 7 -> valid_start_statuses
EndCondition(k, status, start_status) ==
    CASE k = 1 -> status \in first_end_statuses
      [] k = 3 -> status # open_awaiting_submitter
      [] k = 4 -> status # open_promoted
      [] k = 5 -> status = implemented_await_user_verify
      [] k = 7 -> status \in valid_end_statuses /\ status # start_status
ClaimStart(k, v) ==
    FirstIndex({i \in DOMAIN v.statuses : v.statuses[i] \in StartStatuses(k)})
EndByIndex(k, v, si) ==
    IF si = 0 THEN 0
    ELSE FirstIndex({i \in DOMAIN v.statuses :
             i > si /\ EndCondition(k, v.statuses[i], v.statuses[si])})
EndByTimestamp(k, v, si) ==
    IF si = 0 THEN 0
    ELSE FirstIndex({i \in DOMAIN v.statuses :
             v.dates[i] > v.dates[si] /\ EndCondition(k, v.statuses[i], v.statuses[si])})
\* the analysis k, whose loop body has done r with the article, has counted
\* it exactly when ei is a place, and then from the event at si to the event
\* at ei of the sorted timeline v
SelectsEnd(k, r, v, si, ei) ==
    /\ r.counted <=> ei # 0
    /\ Total(Tables[k]) = (IF ei # 0 THEN 1 ELSE 0)
    /\ ei # 0 => /\ r.start_date = v.dates[si]
                 /\ r.end_date = v.dates[ei]

StartEvents(transitions, S) ==
    {i \in S : StatusAt(transitions, i) \in {open_new, open_acknowledged, open_triage}}
AllEvents(transitions) == 0..(Len(transitions) - 1)
StartsBeforeFirstEnd(transitions) ==
    StartEvents(transitions,
        0..(Least(EndEvents(transitions, AllEvents(transitions))) - 1))
C19_LastStartBeforeEnd ==
    (Done /\ Single /\ "transitions" \in DOMAIN article_data_list[1]
          /\ EndEvents(article_data_list[1].transitions,
                       AllEvents(article_data_list[1].transitions)) # {})
        => IF StartsBeforeFirstEnd(article_data_list[1].transitions) = {}
           THEN second_counted = <<>>
           ELSE Len(second_counted) = 1
                    => second_counted[1].last_start_index =
                           Greatest(StartsBeforeFirstEnd(article_data_list[1].transitions))

\* a counted article with two start statuses before its first end status
\* and one after it: the start is the second event
C19_Witness ==
    /\ Done
    /\ Single
    /\ Len(second_counted) = 1
    /\ second_counted[1].last_start_index = 1
    /\ StartsBeforeFirstEnd(article_data_list[1].transitions) = {0, 1}
    /\ StartEvents(article_data_list[1].transitions,
                   AllEvents(article_data_list[1].transitions)) \ {0, 1} # {}

\* C20: in metric 2 the end found before the early-stop handling is the
\* last event of the list whose lower-cased status is exactly open.debug,
\* open.promoted, open.root_caused or implemented: without an early-stop
\* status between the start and that event it is the end of the counted
\* article, otherwise the early stop is the first such status in that range;
\* a status that only has one of the four as a prefix is not an end, and an
\* article with no exact end status is not counted.
C20_LatestExactEnd ==
    (Done /\ Single /\ "transitions" \in DOMAIN article_data_list[1])
        => LET t == article_data_list[1].transitions
               ends == EndEvents(t, AllEvents(t))
           IN  /\ ends = {} => second_counted = <<>>
               /\ Len(second_counted) = 1 =>
                      LET r == second_counted[1]
                          stops == EarlyStops(t, r.last_start_index..Greatest(ends))
                      IN  /\ r.latest_end_index \in ends
                          /\ stops = {} => /\ r.early_stop_index = -1
                                           /\ r.latest_end_index = Greatest(ends)
                                           /\ r.latest_end_status
                                                  = StatusAt(t, Greatest(ends))
                          /\ stops # {} => r.early_stop_index = Least(stops)

\* open.new, open.debug, implemented, implemented.await_user_verify: the
\* end is implemented, which overrides open.debug, and not the last event
C20_Witness ==
    /\ Done
    /\ Single
    /\ Get(article_data_list[1], "transitions", <<>>) =
           Path(<<open_new, open_debug, implemented, implemented_await_user_verify>>)
    /\ Len(second_counted) = 1
    /\ second_counted[1].latest_end_index = 2
    /\ second_counted[1].latest_end_status = implemented
    /\ second_counted[1].early_stop_index = -1


\* The timeline of an article, sorted: its timestamps rise from each event
\* to the next; the first place with a status of S, and the first place
\* after si with a status of S
StrictlyIncreasing(v) ==
    \A i \in DOMAIN v.dates : \A j \in DOMAIN v.dates : i < j => v.dates[i] < v.dates[j]
FirstWith(v, S) == FirstIndex({i \in DOMAIN v.statuses : v.statuses[i] \in S})
FirstAfterWith(v, si, S) ==
    IF si = 0 THEN 0
    ELSE FirstIndex({i \in DOMAIN v.statuses : i > si /\ v.statuses[i] \in S})

\* C21: on a timeline whose timestamps are strictly increasing, metrics 1
\* and 5 measure from the first open.new to the first event after it whose
\* status is in the end set (open.acknowledged, open.triage,
\* open.awaiting_submitter for metric 1, implemented.await_user_verify for
\* metric 5); an open.new or an end status further on changes nothing, and
\* without an end status after the first open.new the article is not
\* counted.
NewEndSet(k) ==
    IF k = 1 THEN {open_acknowledged, open_triage, open_awaiting_submitter}
    ELSE {implemented_await_user_verify}
C21_FirstNewToFirstEnd ==
    (Done /\ Single) =>
        LET v == prepare(article_data_list[1]) IN
        (v.ok /\ StrictlyIncreasing(v)) =>
            \A k \in {1, 5} :
                SelectsEnd(k, ViewOutcome(k, v), v, FirstWith(v, {open_new}),
                           FirstAfterWith(v, FirstWith(v, {open_new}), NewEndSet(k)))

\* open.new, open.new, open.awaiting_submitter, open.awaiting_submitter on
\* four days: metric 1 has measured the two days from the first to the third
C21_Witness ==
    /\ Done
    /\ Single
    /\ prepare(article_data_list[1]).ok
    /\ prepare(article_data_list[1]).statuses =
           <<open_new, open_new, open_awaiting_submitter, open_awaiting_submitter>>
    /\ StrictlyIncreasing(prepare(article_data_list[1]))
    /\ first_article(article_data_list[1]).counted
    /\ first_article(article_data_list[1]).end_date
           - first_article(article_data_list[1]).start_date = 2 * 86400
    /\ first_analysis[P1]["2 to 5 days"] = 1


\* C22: on a timeline whose timestamps are strictly increasing, metrics 3
\* and 4 measure from the first event with the start status
\* (open.awaiting_submitter for metric 3, open.promoted for metric 4) to the
\* first event after it with another status; repeats of the start status
\* are passed over, and an article whose start status is followed by no
\* other status is not counted.
RepeatedStart(k) == IF k = 3 THEN open_awaiting_submitter ELSE open_promoted
FirstOtherAfter(v, si) ==
    IF si = 0 THEN 0
    ELSE FirstIndex({i \in DOMAIN v.statuses : i > si /\ v.statuses[i] # v.statuses[si]})
C22_FirstDifferentStatus ==
    (Done /\ Single) =>
        LET v == prepare(article_data_list[1]) IN
        (v.ok /\ StrictlyIncreasing(v)) =>
            \A k \in {3, 4} :
                SelectsEnd(k, ViewOutcome(k, v), v, FirstWith(v, {RepeatedStart(k)}),
                           FirstOtherAfter(v, FirstWith(v, {RepeatedStart(k)})))

\* open.promoted, open.promoted, open.debug on three days: metric 4 has
\* measured the two days from the first to the third
C22_Witness ==
    /\ Done
    /\ Single
    /\ prepare(article_data_list[1]).ok
    /\ prepare(article_data_list[1]).statuses = <<open_promoted, open_promoted, open_debug>>
    /\ StrictlyIncreasing(prepare(article_data_list[1]))
    /\ fourth_article(article_data_list[1]).counted
    /\ fourth_article(article_data_list[1]).end_date
           - fourth_article(article_data_list[1]).start_date = 2 * 86400
    /\ fourth_analysis[P2]["< 10 days"] = 1


\* C23: metric 7 starts at the first event whose status is implemented or
\* implemented.await_user_verify and ends at the first event with a later
\* timestamp whose status is implemented or verified and is not the status
\* of the start: after a start on implemented only a verified ends the
\* interval, after a start on implemented.await_user_verify the first
\* implemented or verified does.
LaterWith(v, si, S) ==
    IF si = 0 THEN 0
    ELSE FirstIndex({i \in DOMAIN v.statuses :
             v.dates[i] > v.dates[si] /\ v.statuses[i] \in S})
VerifyEnds(start_status) ==
    IF start_status = implemented THEN {verified} ELSE {implemented, verified}
VerifyStart(v) == FirstWith(v, {implemented, implemented_await_user_verify})
C23_EndDiffersFromStart ==
    (Done /\ Single) =>
        LET v == prepare(article_data_list[1]) IN
        v.ok =>
            IF VerifyStart(v) = 0 THEN SelectsEnd(7, seventh_start(v), v, 0, 0)
            ELSE SelectsEnd(7, seventh_start(v), v, VerifyStart(v),
                     LaterWith(v, VerifyStart(v), VerifyEnds(v.statuses[VerifyStart(v)])))

\* implemented, implemented, verified on three days: metric 7 has measured
\* the two days from the first implemented to verified
C23_Witness ==
    /\ Done
    /\ Single
    /\ prepare(article_data_list[1]).ok
    /\ prepare(article_data_list[1]).statuses = <<implemented, implemented, verified>>
    /\ seventh_article(article_data_list[1]).counted
    /\ seventh_article(article_data_list[1]).end_date
           - seventh_article(article_data_list[1]).start_date = 2 * 86400
    /\ seventh_analysis[P1]["< 7 days"] = 1


\* C24: metrics 6 and 8 measure from the event just before the first
\* occurrence of the target status (implemented.await_user_verify for metric
\* 6, complete.product_changed for metric 8) in the sorted timeline to that
\* occurrence; an article is not counted when the target does not occur or
\* is the first event, nor in metric 6 when the event just before it is
\* open.new; a later occurrence of the target is never used.
Target(k) == IF k = 6 THEN implemented_await_user_verify ELSE complete_product_changed
HasPredecessor(k, v, ti) ==
    /\ ti > 1
    /\ k = 6 => v.statuses[ti - 1] # open_new
PredecessorInterval(k, r, v, ti) ==
    IF HasPredecessor(k, v, ti) THEN SelectsEnd(k, r, v, ti - 1, ti)
    ELSE SelectsEnd(k, r, v, 0, 0)
C24_PredecessorOfFirstTarget ==
    (Done /\ Single) =>
        LET v == prepare(article_data_list[1]) IN
        v.ok => \A k \in {6, 8} :
                    PredecessorInterval(k, ViewOutcome(k, v), v, FirstWith(v, {Target(k)}))

\* implemented, implemented.await_user_verify, implemented.await_user_verify
\* on three days: metric 6 has measured the day from the first event to the
\* second
C24_Witness ==
    /\ Done
    /\ Single
    /\ prepare(article_data_list[1]).ok
    /\ prepare(article_data_list[1]).statuses =
           <<implemented, implemented_await_user_verify, implemented_await_user_verify>>
    /\ sixth_article(article_data_list[1]).counted
    /\ sixth_article(article_data_list[1]).start_date = prepare(article_data_list[1]).dates[1]
    /\ sixth_article(article_data_list[1]).end_date = prepare(article_data_list[1]).dates[2]
    /\ sixth_analysis[P1]["< 10 days"] = 1


\* C25: an article that is not rejected and has a tier, and that metric 6
\* skips because the event just before its first
\* implemented.await_user_verify is open.new, is counted by metric 5,
\* whether or not events of its timeline share a timestamp.
SkippedAfterNew(v) ==
    /\ v.ok
    /\ FirstWith(v, {implemented_await_user_verify}) > 1
    /\ v.statuses[FirstWith(v, {implemented_await_user_verify}) - 1] = open_new
C25_SkippedBySixthCountedByFifth ==
    (Done /\ Single /\ SkippedAfterNew(prepare(article_data_list[1])))
        => /\ Total(sixth_analysis) = 0
           /\ Total(fifth_analysis) = 1


\* C26: an article that is not rejected and has a tier, and that metric 2
\* drops because an early-stop status lies between its start and its latest
\* end status with no end status before it, is counted by at least one of
\* the other seven metrics.
DroppedAtEarlyStop(transitions) ==
    /\ EndEvents(transitions, AllEvents(transitions)) # {}
    /\ StartsBeforeFirstEnd(transitions) # {}
    /\ EarlyStops(transitions,
                  Greatest(StartsBeforeFirstEnd(transitions))
                      ..Greatest(EndEvents(transitions, AllEvents(transitions)))) # {}
    /\ EndEvents(transitions,
                 Greatest(StartsBeforeFirstEnd(transitions))
                     ..(Least(EarlyStops(transitions,
                            Greatest(StartsBeforeFirstEnd(transitions))
                                ..Greatest(EndEvents(transitions, AllEvents(transitions)))))
                        - 1)) = {}
C26_DroppedCountedElsewhere ==
    (Done /\ Single /\ ~Malformed(article_data_list[1])
          /\ ~ClaimRejected(article_data_list[1])
          /\ extract_priority(article_data_list[1]) \in Tiers
          /\ extract_priority_second(article_data_list[1]) \in Tiers
          /\ "transitions" \in DOMAIN article_data_list[1]
          /\ DroppedAtEarlyStop(article_data_list[1].transitions))
        => /\ second_counted = <<>>
           /\ \E k \in Metrics \ {2} : Total(Tables[k]) >= 1


\* C27: the sort of the timeline is stable: the events whose timestamp
\* parses come in ascending order of timestamp, and those that share a
\* timestamp in the order of the list.  So the event before the target of
\* metrics 6 and 8, and the first event with a status in metrics 1, 3, 4, 5
\* and 7, are the ones this order gives.
RECURSIVE ParsedDatesUpTo(_, _)
ParsedDatesUpTo(transitions, n) ==
    IF n = 0 THEN <<>>
    ELSE Append(ParsedDatesUpTo(transitions, n - 1),
                parse_date(Get(transitions[n], "updated_date", <<>>)))
ParsedDates(transitions) == ParsedDatesUpTo(transitions, Len(transitions))
ComesBefore(d, i, j) == d[i] < d[j] \/ (d[i] = d[j] /\ i < j)
PlaceInOrder(d, places, r) ==
    CHOOSE j \in places : Cardinality({i \in places : ComesBefore(d, i, j)}) = r - 1
OrderedView(transitions, d, places) ==
    [dates |-> [r \in 1..Cardinality(places) |-> d[PlaceInOrder(d, places, r)]],
     statuses |-> [r \in 1..Cardinality(places) |->
                      Lower(Get(transitions[PlaceInOrder(d, places, r)], "status", <<>>))]]
StableView(transitions) ==
    LET d == ParsedDates(transitions) IN
    OrderedView(transitions, d, {i \in DOMAIN transitions : d[i] # NoDate})
C27_StableSort ==
    (Done /\ Single) =>
        LET v == prepare(article_data_list[1])
            w == StableView(article_data_list[1].transitions)
        IN  v.ok =>
                /\ \A k \in {6, 8} :
                       PredecessorInterval(k, ViewOutcome(k, v), w, FirstWith(w, {Target(k)}))
                /\ \A k \in FirstAfterMetrics :
                       SelectsEnd(k, ViewOutcome(k, v), w, ClaimStart(k, w),
                                  EndByTimestamp(k, w, ClaimStart(k, w)))

\* open.debug and implemented.await_user_verify on one timestamp, in this
\* order of the list: metric 6 has measured from open.debug, 0 days
C27_Witness ==
    /\ Done
    /\ Single
    /\ Get(article_data_list[1], "transitions", <<>>) =
           <<TimedEvent(open_debug, 0), TimedEvent(implemented_await_user_verify, 0)>>
    /\ sixth_article(article_data_list[1]).counted
    /\ sixth_article(article_data_list[1]).end_date
           = sixth_article(article_data_list[1]).start_date
    /\ sixth_analysis[P1]["< 10 days"] = 1


\* C28: when metric 2 counts an article, the start index is at least 0 and
\* less than the end index, and the end index is at most the last index of
\* the list of transitions, both for the end the first pass has found and
\* for the end the duration is summed to; the event at the start index has
\* a start status and the event at either end index has an end status.
SecondStartSet == {open_new, open_acknowledged, open_triage}
SecondEndSet == {open_debug, open_promoted, open_root_caused, implemented}
InOrder(transitions, start, end) ==
    /\ 0 <= start
    /\ start < end
    /\ end <= Len(transitions) - 1
    /\ StatusAt(transitions, start) \in SecondStartSet
    /\ StatusAt(transitions, end) \in SecondEndSet
C28_StartBeforeEnd ==
    (Done /\ Single /\ Len(second_counted) = 1) =>
        /\ second_counted[1].last_start_index
               = first_pass(article_data_list[1].transitions,
                            Len(article_data_list[1].transitions)).last_start_index
        /\ InOrder(article_data_list[1].transitions,
                   second_counted[1].last_start_index,
                   first_pass(article_data_list[1].transitions,
                              Len(article_data_list[1].transitions)).latest_end_index)
        /\ InOrder(article_data_list[1].transitions,
                   second_counted[1].last_start_index,
                   second_counted[1].latest_end_index)

\* a counted article whose end has been replaced at an early stop: the end
\* summed to is before the end of the first pass, and after the start
C28_Witness ==
    /\ Done
    /\ Single
    /\ Len(second_counted) = 1
    /\ second_counted[1].early_stop_index # -1
    /\ second_counted[1].last_start_index < second_counted[1].latest_end_index
    /\ second_counted[1].latest_end_index
           < first_pass(article_data_list[1].transitions,
                        Len(article_data_list[1].transitions)).latest_end_index


\* C29: when the first event of the list of transitions whose status is a
\* start status or an end status of metric 2 is an end status, metric 2 does
\* not count the article, whatever start and end statuses follow.
StartOrEndEvents(transitions) ==
    {i \in AllEvents(transitions) :
        StatusAt(transitions, i) \in SecondStartSet \cup SecondEndSet}
EndComesFirst(transitions) ==
    /\ StartOrEndEvents(transitions) # {}
    /\ StatusAt(transitions, Least(StartOrEndEvents(transitions))) \in SecondEndSet
C29_EndBeforeStart ==
    (Done /\ Single /\ "transitions" \in DOMAIN article_data_list[1]
          /\ EndComesFirst(article_data_list[1].transitions))
        => /\ second_counted = <<>>
           /\ Total(second_analysis) = 0

\* open.debug, open.new, open.debug: an article with a tier that is not
\* rejected, with a start and a later end after its first end status, has
\* gone through all calls and is in no cell of metric 2
C29_Witness ==
    /\ Done
    /\ Single
    /\ prepare(article_data_list[1]).ok
    /\ extract_priority_second(article_data_list[1]) \in Tiers
    /\ Len(article_data_list[1].transitions) = 3
    /\ StatusAt(article_data_list[1].transitions, 0) = open_debug
    /\ StatusAt(article_data_list[1].transitions, 1) = open_new
    /\ StatusAt(article_data_list[1].transitions, 2) = open_debug
    /\ second_counted = <<>>
    /\ Total(second_analysis) = 0


\* C30: for every priority label the extraction of metric 2 and the
\* extraction of the other seven metrics agree on whether the label has a
\* tier among P1, P2, P3 and P4, and on the tier; so every table that counts
\* an article counts it in the row of that one tier.
C30_SameTier ==
    (Done /\ Single /\ Get(article_data_list[1], "priority", <<>>) # PyNone) =>
        /\ extract_priority(article_data_list[1]) \in Tiers
               <=> extract_priority_second(article_data_list[1]) \in Tiers
        /\ extract_priority(article_data_list[1]) \in Tiers
               => extract_priority_second(article_data_list[1])
                      = extract_priority(article_data_list[1])
        /\ \A k \in Metrics : \A tier \in Tiers :
               RowTotal(Tables[k], tier) > 0
                   => tier = extract_priority(article_data_list[1])

\* the label 'P1X', of which the seven take the two characters before a
\* character that is no digit and metric 2 the first two characters:
\* analyses 1 and 2 have both counted the article in the row of P1
C30_Witness ==
    /\ Done
    /\ Single
    /\ Get(article_data_list[1], "priority", <<>>) = <<"P", "1", "X">>
    /\ RowTotal(first_analysis, P1) = 1
    /\ RowTotal(second_analysis, P1) = 1

============================================================================
